---- MODULE Spec2Model ----
(***************************************************************************)
(* Cloudflare D1 data source for Grafana: the backend's QueryData path.    *)
(*                                                                         *)
(* Two implementations of Datasource.query live in the repository:         *)
(*   - src/unnamed/part_004: posts to .../raw and reads the columns/rows   *)
(*     shape (D1RawAPIResponse); modelled by `query`;                      *)
(*   - src/pkg/plugin/datasource.go: posts to .../query and reads rows as  *)
(*     objects (D1APIResponse); modelled by `queryLegacy`.                 *)
(*                                                                         *)
(* Go strings that come from outside (cell values, column names, JSON     *)
(* keys, the query text, the settings) are sequences of one-character      *)
(* strings; the texts the code itself writes (messages, formats) and       *)
(* bodies that are no JSON are TLA+ strings.                               *)
(***************************************************************************)
EXTENDS Integers, Sequences, FiniteSets, TLC

VARIABLES settings, pc, call, responses, trace

vars == <<settings, pc, call, responses, trace>>

(***************************************************************************)
(* Characters and strings                                                  *)
(***************************************************************************)
Digits == {"0", "1", "2", "3", "4", "5", "6", "7", "8", "9"}

\* byte values of the characters the model's strings are made of
Ord ==
  [c \in {" ", "+", ",", "-", ".", ":", "[", "]", "T", "Z"} \cup Digits
      \cup {"a", "d", "e", "f", "i", "l", "m", "n", "r", "s", "t", "u"} |->
    CASE c = " " -> 32 [] c = "+" -> 43 [] c = "," -> 44 [] c = "-" -> 45
      [] c = "." -> 46 [] c = "0" -> 48 [] c = "1" -> 49 [] c = "2" -> 50
      [] c = "3" -> 51 [] c = "4" -> 52 [] c = "5" -> 53 [] c = "6" -> 54
      [] c = "7" -> 55 [] c = "8" -> 56 [] c = "9" -> 57 [] c = ":" -> 58
      [] c = "T" -> 84 [] c = "Z" -> 90 [] c = "[" -> 91 [] c = "]" -> 93
      [] c = "a" -> 97 [] c = "d" -> 100 [] c = "e" -> 101 [] c = "f" -> 102
      [] c = "i" -> 105 [] c = "l" -> 108 [] c = "m" -> 109 [] c = "n" -> 110
      [] c = "r" -> 114 [] c = "s" -> 115 [] c = "t" -> 116 [] c = "u" -> 117]

isDigit(s, i) == i < Len(s) /\ s[i + 1] \in Digits

DigitVal(c) == Ord[c] - 48

\* s[from:] of Go, from counted from 0
Drop(s, from) == SubSeq(s, from + 1, Len(s))

\* Go's < on strings: bytewise lexicographic
RECURSIVE StrLess(_, _)
StrLess(a, b) ==
  IF b = <<>> THEN FALSE
  ELSE IF a = <<>> THEN TRUE
  ELSE IF Ord[Head(a)] # Ord[Head(b)] THEN Ord[Head(a)] < Ord[Head(b)]
  ELSE StrLess(Tail(a), Tail(b))

(***************************************************************************)
(* time.Parse for the two layouts the plugin uses.  A parse result is      *)
(* [ok |-> FALSE] or [ok |-> TRUE, t |-> the time, rest |-> what is left]. *)
(***************************************************************************)
ParseFail == [ok |-> FALSE]

\* time.getnum: one or two digits; exactly two when fixed
getnum(s, fixed) ==
  IF ~isDigit(s, 0) THEN ParseFail
  ELSE IF ~isDigit(s, 1)
    THEN IF fixed THEN ParseFail
         ELSE [ok |-> TRUE, n |-> DigitVal(s[1]), rest |-> Drop(s, 1)]
  ELSE [ok |-> TRUE, n |-> DigitVal(s[1]) * 10 + DigitVal(s[2]), rest |-> Drop(s, 2)]

\* the stdLongYear chunk: four characters, all digits
getyear(s) ==
  IF Len(s) < 4 \/ \E i \in 0..3 : ~isDigit(s, i) THEN ParseFail
  ELSE [ok |-> TRUE,
        n |-> DigitVal(s[1]) * 1000 + DigitVal(s[2]) * 100 + DigitVal(s[3]) * 10 + DigitVal(s[4]),
        rest |-> Drop(s, 4)]

commaOrPeriod(c) == c \in {".", ","}

\* number of digits that follow position 0 of s
RECURSIVE digitRun(_, _)
digitRun(s, i) == IF isDigit(s, i) THEN digitRun(s, i + 1) ELSE i

RECURSIVE atoiDigits(_, _)
atoiDigits(s, acc) ==
  IF s = <<>> THEN acc ELSE atoiDigits(Tail(s), acc * 10 + DigitVal(Head(s)))

RECURSIVE pow10(_)
pow10(n) == IF n = 0 THEN 1 ELSE 10 * pow10(n - 1)

\* time.parseNanoseconds: value[0] is the separator, nbytes counts it
parseNanoseconds(value, nbytes) ==
  LET nb == IF nbytes > 10 THEN 10 ELSE nbytes
  IN  atoiDigits(SubSeq(value, 2, nb), 0) * pow10(10 - nb)

hasFraction(s) == Len(s) >= 2 /\ commaOrPeriod(s[1]) /\ isDigit(s, 1)

\* time.skip for a one-character literal of the layout
skipLit(s, c) ==
  IF s = <<>> \/ s[1] # c THEN ParseFail ELSE [ok |-> TRUE, rest |-> Tail(s)]

RECURSIVE cutspace(_)
cutspace(s) == IF s # <<>> /\ s[1] = " " THEN cutspace(Tail(s)) ELSE s

\* time.skip for a space of the layout: it stands for any run of spaces
skipSpace(s) ==
  IF s # <<>> /\ s[1] # " " THEN ParseFail ELSE [ok |-> TRUE, rest |-> cutspace(s)]

isLeap(year) == year % 4 = 0 /\ (year % 100 # 0 \/ year % 400 = 0)

daysIn(month, year) ==
  IF month = 2 THEN (IF isLeap(year) THEN 29 ELSE 28)
  ELSE IF month \in {4, 6, 9, 11} THEN 30 ELSE 31

\* the "Z07:00" chunk: [ok, offset, rest]
parseZone(s) ==
  IF s # <<>> /\ s[1] = "Z" THEN [ok |-> TRUE, offset |-> 0, rest |-> Tail(s)]
  ELSE IF Len(s) < 6 \/ s[4] # ":" THEN ParseFail
  ELSE LET hr == getnum(SubSeq(s, 2, 3), TRUE)
           mm == getnum(SubSeq(s, 5, 6), TRUE)
       IN  IF ~hr.ok \/ ~mm.ok \/ hr.n > 24 \/ mm.n > 60 \/ s[1] \notin {"+", "-"}
             THEN ParseFail
           ELSE [ok |-> TRUE,
                 offset |-> (IF s[1] = "-" THEN -1 ELSE 1) * (hr.n * 60 + mm.n) * 60,
                 rest |-> Drop(s, 6)]

\* the two layouts, cut into the chunks time.Parse takes one at a time
d1TimestampLayout == <<"2006", "-", "01", "-", "02", " ", "15", ":", "04", ":", "05">>
RFC3339Nano ==
  <<"2006", "-", "01", "-", "02", "T", "15", ":", "04", ":", "05", ".999999999", "Z07:00">>

\* the fields time.Parse fills; offset is the zone's, in seconds
newParse ==
  [year |-> 0, month |-> 0, day |-> 0, hour |-> 0, min |-> 0, sec |-> 0, nsec |-> 0, offset |-> 0]

\* a number chunk g = [ok, n, rest] stored in its field unless out of range
stored(acc, field, g, lo, hi) ==
  IF ~g.ok \/ g.n < lo \/ hi < g.n THEN ParseFail
  ELSE [ok |-> TRUE, acc |-> [acc EXCEPT ![field] = g.n], rest |-> g.rest]

\* a literal of the layout skipped, l = [ok, rest]
skipped(acc, l) == IF ~l.ok THEN ParseFail ELSE [ok |-> TRUE, acc |-> acc, rest |-> l.rest]

\* a fractional second of the input, taken when there is one
fraction(acc, value) ==
  IF hasFraction(value)
    THEN LET n == digitRun(value, 1)
         IN  [ok |-> TRUE, acc |-> [acc EXCEPT !.nsec = parseNanoseconds(value, n)],
              rest |-> Drop(value, n)]
    ELSE [ok |-> TRUE, acc |-> acc, rest |-> value]

\* the seconds chunk: a fraction in the input is taken here when the
\* layout does not go on with one
afterSeconds(layout, r) ==
  IF ~r.ok THEN ParseFail
  ELSE IF Len(layout) > 1 /\ layout[2] = ".999999999" THEN r
  ELSE fraction(r.acc, r.rest)

zoned(acc, z) ==
  IF ~z.ok THEN ParseFail
  ELSE [ok |-> TRUE, acc |-> [acc EXCEPT !.offset = z.offset], rest |-> z.rest]

\* one turn of the loop of time.Parse: the chunk at the head of layout
parseChunk(layout, value, acc) ==
  LET chunk == Head(layout) IN
  CASE chunk = "2006" -> stored(acc, "year", getyear(value), 0, 9999)
    [] chunk = "01" -> stored(acc, "month", getnum(value, TRUE), 1, 12)
    [] chunk = "02" -> stored(acc, "day", getnum(value, TRUE), 0, 99)
    [] chunk = "15" -> stored(acc, "hour", getnum(value, FALSE), 0, 23)
    [] chunk = "04" -> stored(acc, "min", getnum(value, TRUE), 0, 59)
    [] chunk = "05" -> afterSeconds(layout, stored(acc, "sec", getnum(value, TRUE), 0, 59))
    [] chunk = ".999999999" -> fraction(acc, value)
    [] chunk = "Z07:00" -> zoned(acc, parseZone(value))
    [] chunk = " " -> skipped(acc, skipSpace(value))
    [] OTHER -> skipped(acc, skipLit(value, chunk))

dayInRange(dt) == 1 <= dt.day /\ dt.day <= daysIn(dt.month, dt.year)

\* time.Parse(layout, value): chunk by chunk; at the end nothing may be
\* left of the value and the day must be one of its month
RECURSIVE parseLayout(_, _, _)
RECURSIVE parseRest(_, _)
parseLayout(layout, value, acc) ==
  IF layout = <<>>
    THEN IF value # <<>> \/ ~dayInRange(acc) THEN ParseFail ELSE [ok |-> TRUE, t |-> acc]
    ELSE parseRest(Tail(layout), parseChunk(layout, value, acc))

parseRest(layout, r) == IF ~r.ok THEN ParseFail ELSE parseLayout(layout, r.rest, r.acc)

\* time.Parse("2006-01-02 15:04:05", value)
ParseD1(value) == parseLayout(d1TimestampLayout, value, newParse)

\* time.Parse(time.RFC3339Nano, value), layout "2006-01-02T15:04:05.999999999Z07:00"
ParseRFC3339Nano(value) == parseLayout(RFC3339Nano, value, newParse)

(***************************************************************************)
(* JSON values, as encoding/json reads them.  An object is its sequence of *)
(* members <<key, value>>; every key is a character sequence.              *)
(***************************************************************************)
JNull == [k |-> "null"]
JNum(n) == [k |-> "num", n |-> n]
JStr(s) == [k |-> "str", s |-> s]
JBool(b) == [k |-> "bool", b |-> b]
JArr(a) == [k |-> "arr", a |-> a]
JObj(members) == [k |-> "obj", o |-> members]
\* bytes that are no JSON text at all
Garbage(raw) == [k |-> "garbage", raw |-> raw]
\* what looking up a key that an object does not hold gives
Absent == [k |-> "absent"]

kSuccess == <<"s", "u", "c", "c", "e", "s", "s">>
kErrors == <<"e", "r", "r", "o", "r", "s">>
kResult == <<"r", "e", "s", "u", "l", "t">>
kResults == <<"r", "e", "s", "u", "l", "t", "s">>
kColumns == <<"c", "o", "l", "u", "m", "n", "s">>
kRows == <<"r", "o", "w", "s">>
kCode == <<"c", "o", "d", "e">>
kMessage == <<"m", "e", "s", "s", "a", "g", "e">>
kQueryText == <<"q", "u", "e", "r", "y", "T", "e", "x", "t">>
kSql == <<"s", "q", "l">>

SetMax(S) == CHOOSE x \in S : \A y \in S : y <= x

\* the value the decoder ends with for a key: the last member of that name
jget(obj, key) ==
  LET idx == {i \in 1..Len(obj.o) : obj.o[i][1] = key}
  IN  IF idx = {} THEN Absent ELSE obj.o[SetMax(idx)][2]

unset(j) == j.k \in {"absent", "null"}

(***************************************************************************)
(* Go values held in an interface{} and pointers to column values          *)
(***************************************************************************)
GoNil == [t |-> "nil"]
GoFloat(n) == [t |-> "float64", f |-> n]
GoString(s) == [t |-> "string", s |-> s]
GoBool(b) == [t |-> "bool", b |-> b]
GoSlice(a) == [t |-> "[]interface {}", a |-> a]
GoMap(m) == [t |-> "map[string]interface {}", m |-> m]

\* json.Unmarshal into an interface{}
RECURSIVE decodeAny(_)
decodeAny(j) ==
  CASE j.k = "null" -> GoNil
    [] j.k = "num"  -> GoFloat(j.n)
    [] j.k = "str"  -> GoString(j.s)
    [] j.k = "bool" -> GoBool(j.b)
    [] j.k = "arr"  -> GoSlice([i \in 1..Len(j.a) |-> decodeAny(j.a[i])])
    [] j.k = "obj"  -> GoMap([key \in {j.o[i][1] : i \in 1..Len(j.o)} |-> decodeAny(jget(j, key))])

\* json.Unmarshal into a bool, a string or an int field: null and a missing
\* key leave the zero value, another kind of value is an UnmarshalTypeError
decodeBool(j) ==
  IF unset(j) THEN [ok |-> TRUE, v |-> FALSE]
  ELSE IF j.k = "bool" THEN [ok |-> TRUE, v |-> j.b]
  ELSE [ok |-> FALSE, v |-> FALSE]

decodeString(j) ==
  IF unset(j) THEN [ok |-> TRUE, v |-> <<>>]
  ELSE IF j.k = "str" THEN [ok |-> TRUE, v |-> j.s]
  ELSE [ok |-> FALSE, v |-> <<>>]

decodeInt(j) ==
  IF unset(j) THEN [ok |-> TRUE, v |-> 0]
  ELSE IF j.k = "num" THEN [ok |-> TRUE, v |-> j.n]
  ELSE [ok |-> FALSE, v |-> 0]

\* Columns []string
decodeColumns(j) ==
  IF unset(j) THEN [ok |-> TRUE, v |-> <<>>]
  ELSE IF j.k # "arr" THEN [ok |-> FALSE, v |-> <<>>]
  ELSE [ok |-> \A i \in 1..Len(j.a) : decodeString(j.a[i]).ok,
        v |-> [i \in 1..Len(j.a) |-> decodeString(j.a[i]).v]]

decodeRow(j) ==
  IF unset(j) THEN [ok |-> TRUE, v |-> <<>>]
  ELSE IF j.k # "arr" THEN [ok |-> FALSE, v |-> <<>>]
  ELSE [ok |-> TRUE, v |-> [i \in 1..Len(j.a) |-> decodeAny(j.a[i])]]

\* Rows [][]interface{}
decodeRows(j) ==
  IF unset(j) THEN [ok |-> TRUE, v |-> <<>>]
  ELSE IF j.k # "arr" THEN [ok |-> FALSE, v |-> <<>>]
  ELSE [ok |-> \A i \in 1..Len(j.a) : decodeRow(j.a[i]).ok,
        v |-> [i \in 1..Len(j.a) |-> decodeRow(j.a[i]).v]]

\* Results *D1RawQueryActualResult: nil unless the key holds an object
decodeRawQueryActualResult(j) ==
  IF unset(j) THEN [ok |-> TRUE, v |-> GoNil]
  ELSE IF j.k # "obj" THEN [ok |-> FALSE, v |-> GoNil]
  ELSE LET c == decodeColumns(jget(j, kColumns))
           r == decodeRows(jget(j, kRows))
       IN  [ok |-> c.ok /\ r.ok,
            v |-> [t |-> "*D1RawQueryActualResult", Columns |-> c.v, Rows |-> r.v]]

\* D1RawResultItem
decodeRawResultItem(j) ==
  IF unset(j) THEN [ok |-> TRUE, v |-> [Results |-> GoNil, Success |-> FALSE]]
  ELSE IF j.k # "obj" THEN [ok |-> FALSE, v |-> [Results |-> GoNil, Success |-> FALSE]]
  ELSE LET r == decodeRawQueryActualResult(jget(j, kResults))
           s == decodeBool(jget(j, kSuccess))
       IN  [ok |-> r.ok /\ s.ok, v |-> [Results |-> r.v, Success |-> s.v]]

\* D1Error
decodeD1Error(j) ==
  IF unset(j) THEN [ok |-> TRUE, v |-> [Code |-> 0, Message |-> <<>>]]
  ELSE IF j.k # "obj" THEN [ok |-> FALSE, v |-> [Code |-> 0, Message |-> <<>>]]
  ELSE LET c == decodeInt(jget(j, kCode))
           m == decodeString(jget(j, kMessage))
       IN  [ok |-> c.ok /\ m.ok, v |-> [Code |-> c.v, Message |-> m.v]]

decodeErrors(j) ==
  IF unset(j) THEN [ok |-> TRUE, v |-> <<>>]
  ELSE IF j.k # "arr" THEN [ok |-> FALSE, v |-> <<>>]
  ELSE [ok |-> \A i \in 1..Len(j.a) : decodeD1Error(j.a[i]).ok,
        v |-> [i \in 1..Len(j.a) |-> decodeD1Error(j.a[i]).v]]

decodeRawResult(j) ==
  IF unset(j) THEN [ok |-> TRUE, v |-> <<>>]
  ELSE IF j.k # "arr" THEN [ok |-> FALSE, v |-> <<>>]
  ELSE [ok |-> \A i \in 1..Len(j.a) : decodeRawResultItem(j.a[i]).ok,
        v |-> [i \in 1..Len(j.a) |-> decodeRawResultItem(j.a[i]).v]]

\* json.Unmarshal(bodyBytes, &d1Response) for a D1RawAPIResponse
\* variant: a body that is no envelope is taken as the empty envelope
UnmarshalRawAPIResponse_Lenient(body) ==
  [ok |-> TRUE, v |-> [Result |-> <<>>, Success |-> FALSE, Errors |-> <<>>]]

UnmarshalRawAPIResponse(body) ==
  IF body.k = "garbage" THEN [ok |-> FALSE, err |-> "invalid character"]
  ELSE IF body.k = "null"
    THEN [ok |-> TRUE, v |-> [Result |-> <<>>, Success |-> FALSE, Errors |-> <<>>]]
  ELSE IF body.k # "obj" THEN [ok |-> FALSE, err |-> "cannot unmarshal into Go value"]
  ELSE LET r == decodeRawResult(jget(body, kResult))
           s == decodeBool(jget(body, kSuccess))
           e == decodeErrors(jget(body, kErrors))
       IN  IF r.ok /\ s.ok /\ e.ok
             THEN [ok |-> TRUE, v |-> [Result |-> r.v, Success |-> s.v, Errors |-> e.v]]
             ELSE [ok |-> FALSE, err |-> "cannot unmarshal into Go value"]

\* json.Unmarshal(query.JSON, &qm) for struct{ QueryText string }
UnmarshalQueryModel(j) ==
  IF j.k = "garbage" THEN [ok |-> FALSE, err |-> "invalid character"]
  ELSE IF j.k = "null" THEN [ok |-> TRUE, v |-> [QueryText |-> <<>>]]
  ELSE IF j.k # "obj" THEN [ok |-> FALSE, err |-> "cannot unmarshal into Go value"]
  ELSE LET t == decodeString(jget(j, kQueryText))
       IN  IF t.ok THEN [ok |-> TRUE, v |-> [QueryText |-> t.v]]
           ELSE [ok |-> FALSE, err |-> "cannot unmarshal into Go value"]

(***************************************************************************)
(* fmt.Sprintf("%v", val) for the values an interface{} cell can hold      *)
(***************************************************************************)
RECURSIVE digitsOf(_)
digitsOf(n) ==
  IF n < 10 THEN <<CHOOSE c \in Digits : DigitVal(c) = n>>
  ELSE digitsOf(n \div 10) \o <<CHOOSE c \in Digits : DigitVal(c) = n % 10>>

\* %v of a float64 holding an integer below 1e21: its decimal digits
formatFloat(n) == IF n < 0 THEN <<"-">> \o digitsOf(-n) ELSE digitsOf(n)

\* sort.Strings on a set of strings: ascending in Go's string order
RECURSIVE sortStrings(_)
sortStrings(S) ==
  IF S = {} THEN <<>>
  ELSE LET m == CHOOSE x \in S : \A y \in S : ~StrLess(y, x)
       IN  <<m>> \o sortStrings(S \ {m})

RECURSIVE Sprintv(_)
RECURSIVE joinSpace(_)
joinSpace(vals) ==
  IF vals = <<>> THEN <<>>
  ELSE IF Len(vals) = 1 THEN Sprintv(vals[1])
  ELSE Sprintv(vals[1]) \o <<" ">> \o joinSpace(Tail(vals))

\* %v of a map: key:value pairs in key order
RECURSIVE joinPairs(_, _)
joinPairs(m, keys) ==
  IF keys = <<>> THEN <<>>
  ELSE Head(keys) \o <<":">> \o Sprintv(m[Head(keys)])
       \o (IF Len(keys) = 1 THEN <<>> ELSE <<" ">> \o joinPairs(m, Tail(keys)))

Sprintv(val) ==
  CASE val.t = "float64" -> formatFloat(val.f)
    [] val.t = "string"  -> val.s
    [] val.t = "bool"    -> IF val.b THEN <<"t", "r", "u", "e">> ELSE <<"f", "a", "l", "s", "e">>
    [] val.t = "nil"     -> <<"<", "n", "i", "l", ">">>
    [] val.t = "[]interface {}" -> <<"[">> \o joinSpace(val.a) \o <<"]">>
    [] val.t = "map[string]interface {}" ->
         <<"m", "a", "p", "[">> \o joinPairs(val.m, sortStrings(DOMAIN val.m)) \o <<"]">>

(***************************************************************************)
(* What query builds: log records, the outbound request, frames            *)
(***************************************************************************)
Log(level, msg, kv) == [level |-> level, msg |-> msg, kv |-> kv]

NilPtr == [t |-> "nil"]
PtrFloat(n) == [t |-> "*float64", f |-> n]
PtrTime(tm) == [t |-> "*time.Time", tm |-> tm]
PtrString(s) == [t |-> "*string", s |-> s]
PtrBool(b) == [t |-> "*bool", b |-> b]

\* an error is its format and what is formatted; NoError is the nil error
NoError == <<"nil">>
Errorf(format, args) == <<format, args>>

\* data.NewField(colName, nil, colData); Type is the type of colData
NewField(colName, type, colData) == [Name |-> colName, Type |-> type, Values |-> colData]

Notice(severity, text) == [Severity |-> severity, Text |-> text]

\* data.NewFrame(refID) with no field and no notice yet
\* variant: the frame is created without the query's RefID
NewFrame_Unnamed(refID) == [Name |-> "", Fields |-> <<>>, Notices |-> <<>>]

NewFrame(refID) == [Name |-> refID, Fields |-> <<>>, Notices |-> <<>>]

\* variant: the token is sent without the Bearer scheme
NewRequest_NoBearer(d, endpoint, sqlText, timeout) ==
  [Method |-> "POST",
   URL |-> <<"https://api.cloudflare.com/client/v4/accounts/", d.AccountID,
             "/d1/database/", d.DatabaseID, "/", endpoint>>,
   Authorization |-> <<d.Secrets.APIToken>>,
   ContentType |-> "application/json",
   Body |-> JObj(<< <<kSql, JStr(sqlText)>> >>),
   Timeout |-> timeout]

\* the POST both query and CheckHealth build; endpoint is "raw" or "query"
NewRequest(d, endpoint, sqlText, timeout) ==
  [Method |-> "POST",
   URL |-> <<"https://api.cloudflare.com/client/v4/accounts/", d.AccountID,
             "/d1/database/", d.DatabaseID, "/", endpoint>>,
   Authorization |-> <<"Bearer ", d.Secrets.APIToken>>,
   ContentType |-> "application/json",
   Body |-> JObj(<< <<kSql, JStr(sqlText)>> >>),
   Timeout |-> timeout]

(***************************************************************************)
(* Datasource.query of src/unnamed/part_004: the type switch on the first  *)
(* row's value.  Column indexes count from 1 here, from 0 in the code.     *)
(***************************************************************************)
\* variant: the sample taken from the last row
sampleValue_LastRow(d1Rows, colIdx) ==
  IF Len(d1Rows) > 0 /\ colIdx <= Len(d1Rows[Len(d1Rows)])
    THEN d1Rows[Len(d1Rows)][colIdx] ELSE GoNil

\* sampleValue: the first row's value at the column, nil when the row is short
sampleValue(d1Rows, colIdx) ==
  IF Len(d1Rows) > 0 /\ colIdx <= Len(d1Rows[1]) THEN d1Rows[1][colIdx] ELSE GoNil

\* `if colIdx < len(row) { if val := row[colIdx]; val != nil {`: nil stands
\* for both ways of skipping the row
\* variant: an index past the end of the row reads the row's last cell
cellOf_Clamped(row, colIdx) ==
  IF colIdx <= Len(row) THEN row[colIdx]
  ELSE IF row = <<>> THEN GoNil ELSE row[Len(row)]

cellOf(row, colIdx) == IF colIdx <= Len(row) THEN row[colIdx] ELSE GoNil

\* variant: a row that holds no number gets 0 instead of nil
floatColumn_Coerced(d1Rows, colIdx) ==
  [i \in 1..Len(d1Rows) |->
     LET val == cellOf(d1Rows[i], colIdx)
     IN  IF val.t = "float64" THEN PtrFloat(val.f) ELSE PtrFloat(0)]

\* case float64
floatColumn(d1Rows, colIdx) ==
  [i \in 1..Len(d1Rows) |->
     LET val == cellOf(d1Rows[i], colIdx)
     IN  IF val.t = "float64" THEN PtrFloat(val.f) ELSE NilPtr]

\* variant: the rows parsed against the SQLite layout only
parseRowTime_D1Only(sVal) == ParseD1(sVal)

\* the per-row parse of a time column: the SQLite layout, then RFC3339Nano
parseRowTime(sVal) ==
  LET t == ParseD1(sVal) IN IF t.ok THEN t ELSE ParseRFC3339Nano(sVal)

\* variant: the column holds the rows that parse and no others
timeColumn_ParsedOnly(d1Rows, colIdx) ==
  LET kept == SelectSeq(d1Rows, LAMBDA row :
                  cellOf(row, colIdx).t = "string" /\ parseRowTime(cellOf(row, colIdx).s).ok)
  IN  [i \in 1..Len(kept) |-> PtrTime(parseRowTime(cellOf(kept[i], colIdx).s).t)]

\* case string, parsedAsTime
timeColumn(d1Rows, colIdx) ==
  [i \in 1..Len(d1Rows) |->
     LET val == cellOf(d1Rows[i], colIdx)
     IN  IF val.t = "string" /\ parseRowTime(val.s).ok
           THEN PtrTime(parseRowTime(val.s).t) ELSE NilPtr]

\* the warnings of the time column, one per string that fails both layouts
RECURSIVE timeWarnings(_, _, _, _)
timeWarnings(colName, d1Rows, colIdx, i) ==
  IF i > Len(d1Rows) THEN <<>>
  ELSE LET val == cellOf(d1Rows[i], colIdx)
       IN  (IF val.t = "string" /\ ~parseRowTime(val.s).ok
              THEN <<Log("warn", "Failed to parse time string in row, leaving as nil",
                         <<"column", colName, "row_index", i - 1, "value", val.s,
                           "error", "parsing time">>)>>
              ELSE <<>>)
           \o timeWarnings(colName, d1Rows, colIdx, i + 1)

\* variant: a value that is no string is stored as its %v text
stringColumn_Formatted(d1Rows, colIdx) ==
  [i \in 1..Len(d1Rows) |->
     LET val == cellOf(d1Rows[i], colIdx)
     IN  IF val.t = "nil" THEN NilPtr
         ELSE IF val.t = "string" THEN PtrString(val.s)
         ELSE PtrString(Sprintv(val))]

\* case string, not a time
stringColumn(d1Rows, colIdx) ==
  [i \in 1..Len(d1Rows) |->
     LET val == cellOf(d1Rows[i], colIdx)
     IN  IF val.t = "string" THEN PtrString(val.s) ELSE NilPtr]

\* case bool
boolColumn(d1Rows, colIdx) ==
  [i \in 1..Len(d1Rows) |->
     LET val == cellOf(d1Rows[i], colIdx)
     IN  IF val.t = "bool" THEN PtrBool(val.b) ELSE NilPtr]

\* variant: a value that is no string is left nil
nilSampleColumn_StringsOnly(d1Rows, colIdx) ==
  [i \in 1..Len(d1Rows) |->
     LET val == cellOf(d1Rows[i], colIdx)
     IN  IF val.t = "string" THEN PtrString(val.s) ELSE NilPtr]

\* case nil: strings as they are, other values through %v
nilSampleColumn(d1Rows, colIdx) ==
  [i \in 1..Len(d1Rows) |->
     LET val == cellOf(d1Rows[i], colIdx)
     IN  IF val.t = "nil" THEN NilPtr
         ELSE IF val.t = "string" THEN PtrString(val.s)
         ELSE PtrString(Sprintv(val))]

\* default: every non-nil value through %v
defaultColumn(d1Rows, colIdx) ==
  [i \in 1..Len(d1Rows) |->
     LET val == cellOf(d1Rows[i], colIdx)
     IN  IF val.t = "nil" THEN NilPtr ELSE PtrString(Sprintv(val))]

\* the sample string parses under one of the two layouts
parsedAsTime(v) == ParseD1(v).ok \/ ParseRFC3339Nano(v).ok

\* one turn of `for colIdx, colName := range colNames`: [field, logs]
inferField(colName, d1Rows, colIdx) ==
  LET sv == sampleValue(d1Rows, colIdx) IN
  CASE sv.t = "float64" ->
         [field |-> NewField(colName, "[]*float64", floatColumn(d1Rows, colIdx)),
          logs |-> <<Log("debug", "Column type inference", <<"column", colName, "type", "float64">>)>>]
    [] sv.t = "string" /\ parsedAsTime(sv.s) ->
         [field |-> NewField(colName, "[]*time.Time", timeColumn(d1Rows, colIdx)),
          logs |-> <<Log("debug", "Column type inference", <<"column", colName, "type", "string_from_json">>),
                     Log("debug", IF ParseD1(sv.s).ok
                                    THEN "Column type inference: parsed as D1 format"
                                    ELSE "Column type inference: parsed as RFC3339Nano",
                         <<"column", colName, "value", sv.s>>),
                     Log("debug", "Column type inference: creating time.Time field", <<"column", colName>>)>>
                   \o timeWarnings(colName, d1Rows, colIdx, 1)]
    [] sv.t = "string" /\ ~parsedAsTime(sv.s) ->
         [field |-> NewField(colName, "[]*string", stringColumn(d1Rows, colIdx)),
          logs |-> <<Log("debug", "Column type inference", <<"column", colName, "type", "string_from_json">>),
                     Log("debug", "Column type inference: treating as regular string",
                         <<"column", colName, "value", sv.s>>)>>]
    [] sv.t = "bool" ->
         [field |-> NewField(colName, "[]*bool", boolColumn(d1Rows, colIdx)),
          logs |-> <<Log("debug", "Column type inference", <<"column", colName, "type", "bool">>)>>]
    [] sv.t = "nil" ->
         [field |-> NewField(colName, "[]*string", nilSampleColumn(d1Rows, colIdx)),
          logs |-> <<Log("debug", "Column type inference",
                         <<"column", colName, "type", "nil_sample, defaulting to string">>)>>]
    [] OTHER ->
         [field |-> NewField(colName, "[]*string", defaultColumn(d1Rows, colIdx)),
          logs |-> <<Log("debug", "Column type inference",
                         <<"column", colName, "type", "unknown, defaulting to string", "actual_type", sv.t>>)>>]

\* variant: the fields appended from the last column to the first
fieldOrder_Reversed(colNames) == [i \in 1..Len(colNames) |-> Len(colNames) - i + 1]

\* the order in which the fields are appended: that of Results.Columns
fieldOrder(colNames) == [i \in 1..Len(colNames) |-> i]

RECURSIVE concatLogs(_)
concatLogs(parts) == IF parts = <<>> THEN <<>> ELSE Head(parts).logs \o concatLogs(Tail(parts))

\* variant: the DDL notice whenever there is a results payload without rows
noDataNotice_AnyColumns(d1Response, queryText) ==
  IF Len(d1Response.Result) > 0 /\ d1Response.Result[1].Results # GoNil
       /\ Len(d1Response.Result[1].Results.Rows) = 0
    THEN IF d1Response.Result[1].Success
           THEN [notice |-> Notice("info", "Query executed successfully, no data returned (e.g., DDL statement)."),
                 logs |-> <<>>]
           ELSE [notice |-> Notice("warning", "Query returned no data or an error occurred in the result processing."),
                 logs |-> <<>>]
    ELSE [notice |-> Notice("info", "Query returned no data."), logs |-> <<>>]

\* variant: every notice of the no-data branch informational
noDataNotice_AlwaysInfo(d1Response, queryText) ==
  IF Len(d1Response.Result) > 0 /\ d1Response.Result[1].Results # GoNil
       /\ Len(d1Response.Result[1].Results.Columns) = 0
       /\ Len(d1Response.Result[1].Results.Rows) = 0
    THEN [notice |-> Notice("info", "Query executed successfully, no data returned (e.g., DDL statement)."),
          logs |-> <<>>]
    ELSE [notice |-> Notice("info", "Query returned no data."), logs |-> <<>>]

\* the notice of the no-data branch: [notice, logs]
noDataNotice(d1Response, queryText) ==
  IF Len(d1Response.Result) > 0 /\ d1Response.Result[1].Results # GoNil
       /\ Len(d1Response.Result[1].Results.Columns) = 0
       /\ Len(d1Response.Result[1].Results.Rows) = 0
    THEN IF d1Response.Result[1].Success
           THEN [notice |-> Notice("info", "Query executed successfully, no data returned (e.g., DDL statement)."),
                 logs |-> <<>>]
           ELSE [notice |-> Notice("warning", "Query returned no data or an error occurred in the result processing."),
                 logs |-> <<Log("debug", "D1 query returned no results or an error in the result item",
                                <<"QueryText", queryText>>)>>]
    ELSE [notice |-> Notice("info", "Query returned no data."),
          logs |-> <<Log("debug", "D1 query returned no result rows", <<"QueryText", queryText>>)>>]

\* variant: empty rows are not a no-data case
noData_RowsIgnored(d1Response) ==
  \/ Len(d1Response.Result) = 0
  \/ d1Response.Result[1].Results = GoNil

\* variant: rows without column names pass
rowsWithoutColumns_Never(colNames, d1Rows) == FALSE

\* `len(colNames) == 0 && rowCount > 0`
rowsWithoutColumns(colNames, d1Rows) == Len(colNames) = 0 /\ Len(d1Rows) > 0

\* `len(Result) == 0 || Result[0].Results == nil || len(Result[0].Results.Rows) == 0`
\* variant: no data only when no item of the result holds rows
noData_AnyItem(d1Response) ==
  \/ Len(d1Response.Result) = 0
  \/ d1Response.Result[1].Results = GoNil
  \/ \A n \in 1..Len(d1Response.Result) :
       \/ d1Response.Result[n].Results = GoNil
       \/ Len(d1Response.Result[n].Results.Rows) = 0

noData(d1Response) ==
  \/ Len(d1Response.Result) = 0
  \/ d1Response.Result[1].Results = GoNil
  \/ Len(d1Response.Result[1].Results.Rows) = 0

\* the frame with one field per column appended: [resp, logs]; cols are the
\* turns of the column loop
framed(frame, cols) ==
  [resp |-> [Error |-> NoError,
             Frames |-> <<[frame EXCEPT !.Fields = [k \in 1..Len(cols) |-> cols[k].field]]>>],
   logs |-> concatLogs(cols)]

\* "Start DataFrame conversion" to the end of query: [resp, logs]
translate(refID, d1Response, queryText) ==
  LET frame == NewFrame(refID) IN
  IF noData(d1Response)
    THEN LET n == noDataNotice(d1Response, queryText)
         IN  [resp |-> [Error |-> NoError,
                        Frames |-> <<[frame EXCEPT !.Notices = <<n.notice>>]>>],
              logs |-> n.logs]
  ELSE LET colNames == d1Response.Result[1].Results.Columns
           d1Rows   == d1Response.Result[1].Results.Rows
       IN  IF rowsWithoutColumns(colNames, d1Rows)
             THEN [resp |-> [Error |-> Errorf("D1 /raw response has rows but no column names", <<>>),
                             Frames |-> <<>>],
                   logs |-> <<>>]
           ELSE LET order == fieldOrder(colNames)
                IN  framed(frame, [k \in 1..Len(order) |->
                                     inferField(colNames[order[k]], d1Rows, order[k])])

\* variant: the record of a query names the token as well
executingLog_WithToken(d, text) ==
  Log("debug", "Executing D1 query",
      <<"QueryText", text, "AccountID", d.AccountID, "APIToken", d.Secrets.APIToken>>)

\* log.DefaultLogger.Debug("Executing D1 query", ...)
executingLog(d, text) ==
  Log("debug", "Executing D1 query", <<"QueryText", text, "AccountID", d.AccountID>>)

\* variant: only a server error (5xx) counts as a failed request
statusFailed_ServerOnly(status) == status >= 500

\* resp.StatusCode != http.StatusOK
\* variant: No Content passes as well
statusFailed_NoContent(status) == status \notin {200, 204}

statusFailed(status) == status # 200

\* variant: only the first entry of the list is reported
errorMessages_FirstOnly(errs) ==
  [i \in 1..(IF errs = <<>> THEN 0 ELSE 1) |-> <<"Code ", errs[i].Code, ": ", errs[i].Message, " ">>]

\* errorMessages += fmt.Sprintf("Code %d: %s ", e.Code, e.Message), entry by entry
errorMessages(errs) == [i \in 1..Len(errs) |-> <<"Code ", errs[i].Code, ": ", errs[i].Message, " ">>]

\* variant: a failed call is sent a second time before it is given up
failed_Retried(err, reqs, logs) ==
  [resp |-> [Error |-> err, Frames |-> <<>>], reqs |-> reqs \o reqs, logs |-> logs]

\* return backend.DataResponse{Error: err}: no frame, nothing sent after it
failed(err, reqs, logs) == [resp |-> [Error |-> err, Frames |-> <<>>], reqs |-> reqs, logs |-> logs]

\* variant: every text passes, the empty one too
emptyQueryText_Never(qm) == FALSE

\* the query-text check that precedes every network call
emptyQueryText(qm) == qm.QueryText = <<>>

\* query from the decoding of a 200 response on: dec is what json.Unmarshal
\* made of the body, tr what the translation of dec.v gives
translated(tr, reqs, log0) == [resp |-> tr.resp, reqs |-> reqs, logs |-> log0 \o tr.logs]

\* variant: the success flag of the (possibly zero) envelope is consulted
\* before the decoding error
decoded_FlagFirst(q, text, body, dec, reqs, log0) ==
  IF ~dec.ok \/ ~dec.v.Success
    THEN LET errs == IF dec.ok THEN errorMessages(dec.v.Errors) ELSE <<>>
         IN  failed(Errorf("D1 API error: %s", errs),
                    reqs,
                    log0 \o <<Log("error", "D1 API call reported not successful",
                                  <<"errors", errs>>)>>)
  ELSE translated(translate(q.RefID, dec.v, text), reqs, log0)

decoded(q, text, body, dec, reqs, log0) ==
  IF ~dec.ok
    THEN failed(Errorf("error unmarshalling D1 API raw response: %w. Body: %s", <<dec.err, body>>),
                reqs,
                log0 \o <<Log("error", "Error unmarshalling D1 raw response",
                              <<"error", dec.err, "body", body>>)>>)
  ELSE IF ~dec.v.Success
    THEN failed(Errorf("D1 API error: %s", errorMessages(dec.v.Errors)),
                reqs,
                log0 \o <<Log("error", "D1 API call reported not successful",
                              <<"errors", errorMessages(dec.v.Errors)>>)>>)
  ELSE translated(translate(q.RefID, dec.v, text), reqs, log0)

\* Datasource.query: the response, the requests sent and the records logged.
\* env is what the network does with the request, if one is sent:
\* [k |-> "transport"] (Do fails), [k |-> "read", status] (the body cannot be
\* read) or [k |-> "response", status, body].
query(d, q, env) ==
  LET qm == UnmarshalQueryModel(q.JSON) IN
  IF ~qm.ok THEN failed(Errorf("json unmarshal query: %w", <<qm.err>>), <<>>, <<>>)
  ELSE IF emptyQueryText(qm.v) THEN failed(Errorf("empty query text", <<>>), <<>>, <<>>)
  ELSE
  LET text == qm.v.QueryText
      log0 == <<executingLog(d, text)>>
      reqs == <<NewRequest(d, "raw", text, 10)>>
  IN
  IF env.k = "transport"
    THEN failed(Errorf("error executing D1 API request: %w", <<"transport">>), reqs, log0)
  ELSE IF env.k = "read"
    THEN failed(Errorf("error reading D1 API response body: %w", <<"read">>), reqs, log0)
  ELSE IF statusFailed(env.status)
    THEN failed(Errorf("D1 API request failed with status %s. Response: %s", <<env.status, env.body>>),
                reqs,
                log0 \o <<Log("error", "D1 API request failed", <<"status", env.status, "body", env.body>>)>>)
  ELSE decoded(q, text, env.body, UnmarshalRawAPIResponse(env.body), reqs, log0)

(***************************************************************************)
(* Datasource.query of src/pkg/plugin/datasource.go: the /query endpoint,  *)
(* whose rows are objects keyed by column name.                            *)
(***************************************************************************)
\* a row of Results []map[string]interface{}: the map, as a function
decodeRowObject(j) ==
  IF unset(j) THEN [ok |-> TRUE, v |-> <<>>]
  ELSE IF j.k # "obj" THEN [ok |-> FALSE, v |-> <<>>]
  ELSE [ok |-> TRUE, v |-> decodeAny(j).m]

\* D1SuccessResult
decodeSuccessResult(j) ==
  IF unset(j) THEN [ok |-> TRUE, v |-> [Results |-> <<>>, Success |-> FALSE]]
  ELSE IF j.k # "obj" THEN [ok |-> FALSE, v |-> [Results |-> <<>>, Success |-> FALSE]]
  ELSE LET r  == jget(j, kResults)
           rs == IF unset(r) THEN [ok |-> TRUE, v |-> <<>>]
                 ELSE IF r.k # "arr" THEN [ok |-> FALSE, v |-> <<>>]
                 ELSE [ok |-> \A i \in 1..Len(r.a) : decodeRowObject(r.a[i]).ok,
                       v |-> [i \in 1..Len(r.a) |-> decodeRowObject(r.a[i]).v]]
           sc == decodeBool(jget(j, kSuccess))
       IN  [ok |-> rs.ok /\ sc.ok, v |-> [Results |-> rs.v, Success |-> sc.v]]

\* json.Unmarshal(bodyBytes, &d1Response) for a D1APIResponse
UnmarshalAPIResponse(body) ==
  IF body.k = "garbage" THEN [ok |-> FALSE, err |-> "invalid character"]
  ELSE IF body.k = "null"
    THEN [ok |-> TRUE, v |-> [Result |-> <<>>, Success |-> FALSE, Errors |-> <<>>]]
  ELSE IF body.k # "obj" THEN [ok |-> FALSE, err |-> "cannot unmarshal into Go value"]
  ELSE LET r  == jget(body, kResult)
           rs == IF unset(r) THEN [ok |-> TRUE, v |-> <<>>]
                 ELSE IF r.k # "arr" THEN [ok |-> FALSE, v |-> <<>>]
                 ELSE [ok |-> \A i \in 1..Len(r.a) : decodeSuccessResult(r.a[i]).ok,
                       v |-> [i \in 1..Len(r.a) |-> decodeSuccessResult(r.a[i]).v]]
           s == decodeBool(jget(body, kSuccess))
           e == decodeErrors(jget(body, kErrors))
       IN  IF rs.ok /\ s.ok /\ e.ok
             THEN [ok |-> TRUE, v |-> [Result |-> rs.v, Success |-> s.v, Errors |-> e.v]]
             ELSE [ok |-> FALSE, err |-> "cannot unmarshal into Go value"]

\* `val, ok := row[colName]; ok && val != nil`: nil stands for both
lookup(row, colName) == IF colName \in DOMAIN row THEN row[colName] ELSE GoNil

\* the orders in which `for k := range firstRow` may yield the keys of a map;
\* Go leaves the order open. For a map of at most two keys these are all.
RangeOrders == {"ascending", "descending"}

\* `for k := range firstRow { colNames = append(colNames, k) }` under an order
rangeKeys(firstRow, rng) ==
  LET asc == sortStrings(DOMAIN firstRow)
  IN  IF rng = "ascending" THEN asc ELSE [i \in 1..Len(asc) |-> asc[Len(asc) - i + 1]]

\* sort.Strings on a slice: each element put in its place among the sorted ones
RECURSIVE insertString(_, _)
insertString(sorted, x) ==
  IF sorted = <<>> THEN <<x>>
  ELSE IF StrLess(x, Head(sorted)) THEN <<x>> \o sorted
  ELSE <<Head(sorted)>> \o insertString(Tail(sorted), x)

RECURSIVE sortSlice(_)
sortSlice(names) ==
  IF names = <<>> THEN <<>>
  ELSE insertString(sortSlice(SubSeq(names, 1, Len(names) - 1)), names[Len(names)])

\* variant: the keys in descending order
legacyColNames_Descending(firstRow, rng) ==
  LET asc == sortStrings(DOMAIN firstRow)
  IN  [i \in 1..Len(asc) |-> asc[Len(asc) - i + 1]]

\* variant: the keys as the map iteration yields them, not sorted
legacyColNames_Unsorted(firstRow, rng) == rangeKeys(firstRow, rng)

\* colNames: the keys of the first row as the iteration yields them, through
\* sort.Strings
legacyColNames(firstRow, rng) == sortSlice(rangeKeys(firstRow, rng))

legacyFloat(d1Results, colName) ==
  [i \in 1..Len(d1Results) |->
     LET val == lookup(d1Results[i], colName)
     IN  IF val.t = "float64" THEN PtrFloat(val.f) ELSE NilPtr]

legacyString(d1Results, colName) ==
  [i \in 1..Len(d1Results) |->
     LET val == lookup(d1Results[i], colName)
     IN  IF val.t = "string" THEN PtrString(val.s) ELSE NilPtr]

legacyBool(d1Results, colName) ==
  [i \in 1..Len(d1Results) |->
     LET val == lookup(d1Results[i], colName)
     IN  IF val.t = "bool" THEN PtrBool(val.b) ELSE NilPtr]

legacyTime(d1Results, colName) ==
  [i \in 1..Len(d1Results) |->
     LET val == lookup(d1Results[i], colName)
     IN  IF val.t = "string" /\ ParseRFC3339Nano(val.s).ok
           THEN PtrTime(ParseRFC3339Nano(val.s).t) ELSE NilPtr]

\* case nil and default: every non-nil value through %v
legacyFormatted(d1Results, colName) ==
  [i \in 1..Len(d1Results) |->
     LET val == lookup(d1Results[i], colName)
     IN  IF val.t = "nil" THEN NilPtr ELSE PtrString(Sprintv(val))]

legacyField(colName, d1Results) ==
  LET sv == d1Results[1][colName] IN
  CASE sv.t = "float64" ->
         [field |-> NewField(colName, "[]*float64", legacyFloat(d1Results, colName)),
          logs |-> <<Log("debug", "Column type inference", <<"column", colName, "type", "float64">>)>>]
    [] sv.t = "string" /\ ParseRFC3339Nano(sv.s).ok ->
         [field |-> NewField(colName, "[]*time.Time", legacyTime(d1Results, colName)),
          logs |-> <<Log("debug", "Column type inference", <<"column", colName, "type", "string">>),
                     Log("debug", "Column type inference",
                         <<"column", colName, "detected_type", "time.Time from string">>)>>]
    [] sv.t = "string" /\ ~ParseRFC3339Nano(sv.s).ok ->
         [field |-> NewField(colName, "[]*string", legacyString(d1Results, colName)),
          logs |-> <<Log("debug", "Column type inference", <<"column", colName, "type", "string">>)>>]
    [] sv.t = "bool" ->
         [field |-> NewField(colName, "[]*bool", legacyBool(d1Results, colName)),
          logs |-> <<Log("debug", "Column type inference", <<"column", colName, "type", "bool">>)>>]
    [] sv.t = "nil" ->
         [field |-> NewField(colName, "[]*string", legacyFormatted(d1Results, colName)),
          logs |-> <<Log("debug", "Column type inference",
                         <<"column", colName, "type", "nil in first row, defaulting to string">>)>>]
    [] OTHER ->
         [field |-> NewField(colName, "[]*string", legacyFormatted(d1Results, colName)),
          logs |-> <<Log("debug", "Column type inference",
                         <<"column", colName, "type", "unknown, defaulting to string", "actual_type", sv.t>>)>>]

legacyTranslate(refID, d1Response, queryText, rng) ==
  LET frame == NewFrame(refID) IN
  IF Len(d1Response.Result) = 0 \/ Len(d1Response.Result[1].Results) = 0
    THEN [resp |-> [Error |-> NoError,
                    Frames |-> <<[frame EXCEPT !.Notices = <<Notice("info", "Query returned no data.")>>]>>],
          logs |-> <<Log("debug", "D1 query returned no results", <<"QueryText", queryText>>)>>]
  ELSE LET d1Results == d1Response.Result[1].Results
           colNames  == legacyColNames(d1Results[1], rng)
       IN  framed(frame, [k \in 1..Len(colNames) |-> legacyField(colNames[k], d1Results)])

legacyDecoded(q, text, body, dec, reqs, log0, rng) ==
  IF ~dec.ok
    THEN failed(Errorf("error unmarshalling D1 API response: %w. Body: %s", <<dec.err, body>>),
                reqs,
                log0 \o <<Log("error", "Error unmarshalling D1 response",
                              <<"error", dec.err, "body", body>>)>>)
  ELSE IF ~dec.v.Success
    THEN failed(Errorf("D1 API error: %s", errorMessages(dec.v.Errors)),
                reqs,
                log0 \o <<Log("error", "D1 API call reported not successful",
                              <<"errors", errorMessages(dec.v.Errors)>>)>>)
  ELSE translated(legacyTranslate(q.RefID, dec.v, text, rng), reqs, log0)

queryLegacy(d, q, env, rng) ==
  LET qm == UnmarshalQueryModel(q.JSON) IN
  IF ~qm.ok THEN failed(Errorf("json unmarshal query: %w", <<qm.err>>), <<>>, <<>>)
  ELSE IF qm.v.QueryText = <<>> THEN failed(Errorf("empty query text", <<>>), <<>>, <<>>)
  ELSE
  LET text == qm.v.QueryText
      log0 == <<executingLog(d, text)>>
      reqs == <<NewRequest(d, "query", text, 30)>>
  IN
  IF env.k = "transport"
    THEN failed(Errorf("error executing D1 API request: %w", <<"transport">>), reqs, log0)
  ELSE IF env.k = "read"
    THEN failed(Errorf("error reading D1 API response body: %w", <<"read">>), reqs, log0)
  ELSE IF statusFailed(env.status)
    THEN failed(Errorf("D1 API request failed with status %s. Response: %s", <<env.status, env.body>>),
                reqs,
                log0 \o <<Log("error", "D1 API request failed", <<"status", env.status, "body", env.body>>)>>)
  ELSE legacyDecoded(q, text, env.body, UnmarshalAPIResponse(env.body), reqs, log0, rng)

(***************************************************************************)
(* Datasource.CheckHealth: the SELECT 1 probe of the configuration page    *)
(***************************************************************************)
selectOne == <<"S", "E", "L", "E", "C", "T", " ", "1", ";">>

\* &backend.CheckHealthResult{Status, Message}, nil; a message is the
\* sequence of the pieces it is put together from
healthResult(status, message, reqs, logs) ==
  [result |-> [Status |-> status, Message |-> message], err |-> NoError,
   reqs |-> reqs, logs |-> logs]

\* len(bodyBytes) > 0
emptyBody(body) == body.k = "garbage" /\ body.raw = ""

\* the message of a probe whose status is not 200
statusMessage(env) ==
  IF env.k = "response" /\ ~emptyBody(env.body)
    THEN <<"D1 API request failed with status ", env.status, ". Response: ", env.body>>
    ELSE <<"D1 API request failed with status ", env.status>>

\* variant: every 2xx status passes
probeFailed_Non2xx(status) == status \notin 200..299

\* resp.StatusCode != http.StatusOK
probeFailed(status) == status # 200

\* CheckHealth of part_004; env is what the network does with the probe
checkHealth(d, env) ==
  LET log0 == <<Log("info", "Checking health", <<"AccountID", d.AccountID>>)>>
      reqs == <<NewRequest(d, "query", selectOne, 10)>>
  IN
  IF d.AccountID = <<>> \/ d.DatabaseID = <<>> \/ d.Secrets.APIToken = <<>>
    THEN healthResult("ERROR",
           <<"Health check failed:",
             " Account ID, Database ID, or API Token is missing in datasource configuration">>,
           <<>>,
           log0 \o <<Log("error", "Health check failed: missing configuration",
                         <<"AccountID", d.AccountID, "DatabaseID", d.DatabaseID,
                           "APITokenSet", d.Secrets.APIToken # <<>> >>)>>)
  ELSE IF env.k = "transport"
    THEN healthResult("ERROR", <<"Error executing D1 API request: ", "transport">>, reqs, log0)
  ELSE IF probeFailed(env.status)
    THEN healthResult("ERROR", statusMessage(env), reqs, log0)
  ELSE healthResult("OK",
         <<"Health check successful: Successfully connected to Cloudflare D1.">>, reqs, log0)

\* CheckHealth of pkg/plugin/datasource.go
checkHealthLegacy(d, env) ==
  LET reqs == <<NewRequest(d, "query", selectOne, 10)>> IN
  IF d.AccountID = <<>>
    THEN healthResult("ERROR", <<"Account ID is missing">>, <<>>, <<>>)
  ELSE IF d.DatabaseID = <<>>
    THEN healthResult("ERROR", <<"Database ID is missing">>, <<>>, <<>>)
  ELSE IF d.Secrets.APIToken = <<>>
    THEN healthResult("ERROR", <<"API Token is missing">>, <<>>, <<>>)
  ELSE IF env.k = "transport"
    THEN healthResult("ERROR", <<"Error executing D1 API request: ", "transport">>, reqs, <<>>)
  ELSE IF probeFailed(env.status)
    THEN healthResult("ERROR", statusMessage(env), reqs, <<>>)
  ELSE healthResult("OK",
         <<"Successfully connected to Cloudflare D1 and executed test query.">>, reqs, <<>>)

(***************************************************************************)
(* models.LoadPluginSettings and NewDatasource                             *)
(***************************************************************************)
kAccountId == <<"a", "c", "c", "o", "u", "n", "t", "I", "d">>
kDatabaseId == <<"d", "a", "t", "a", "b", "a", "s", "e", "I", "d">>
kApiToken == <<"a", "p", "i", "T", "o", "k", "e", "n">>

\* source.JSONData is a JSON text, source.DecryptedSecureJSONData a map or nil
LoadPluginSettings(source) ==
  LET j == source.JSONData IN
  IF j.k = "garbage" \/ j.k \notin {"obj", "null"} THEN [ok |-> FALSE]
  ELSE LET a == IF j.k = "obj" THEN decodeString(jget(j, kAccountId)) ELSE decodeString(Absent)
           b == IF j.k = "obj" THEN decodeString(jget(j, kDatabaseId)) ELSE decodeString(Absent)
           sec == source.DecryptedSecureJSONData
       IN  IF ~a.ok \/ ~b.ok THEN [ok |-> FALSE]
           ELSE [ok |-> TRUE,
                 v |-> [AccountID |-> a.v, DatabaseID |-> b.v,
                        Secrets |-> [APIToken |-> IF sec.t # "nil" /\ kApiToken \in DOMAIN sec.m
                                                    THEN sec.m[kApiToken] ELSE <<>>]]]

\* NewDatasource: the instance exists only when the settings load
NewDatasource(source) == LoadPluginSettings(source)

(***************************************************************************)
(* The inputs the model is run on                                          *)
(***************************************************************************)
\* most rows of a result, most items of a result array, most queries of a batch
MaxRows == 2
MaxResultItems == 2
MaxBatch == 2

sqlSelect == <<"S", "E", "L", "E", "C", "T", " ", "1">>
tsD1 == <<"2", "0", "2", "4", "-", "0", "1", "-", "0", "2", " ", "0", "3", ":", "0", "4", ":", "0", "5">>
tsRFC == <<"2", "0", "2", "4", "-", "0", "3", "-", "0", "4", "T", "0", "5", ":", "0", "6", ":", "0", "7", ".", "5", "+", "0", "1", ":", "0", "0">>
\* 2023 is no leap year: the string fits the SQLite layout and is no time
notTime == <<"2", "0", "2", "3", "-", "0", "2", "-", "2", "9", " ", "0", "3", ":", "0", "4", ":", "0", "5">>
cId == <<"i", "d">>
cName == <<"n", "a", "m", "e">>
cAt == <<"a", "t">>

\* the data source instances: a complete configuration, one without a token,
\* one without an account id, one whose database id is the empty string
InstanceSources ==
  {[JSONData |-> JObj(<< <<kAccountId, JStr(<<"a", "c", "c">>)>>, <<kDatabaseId, JStr(<<"d", "b">>)>> >>),
    DecryptedSecureJSONData |-> GoMap([key \in {kApiToken} |-> <<"t", "o", "k">>])],
   [JSONData |-> JObj(<< <<kAccountId, JStr(<<"a", "c", "c">>)>>, <<kDatabaseId, JStr(<<"d", "b">>)>> >>),
    DecryptedSecureJSONData |-> GoNil],
   [JSONData |-> JObj(<< <<kDatabaseId, JStr(<<"d", "b">>)>> >>),
    DecryptedSecureJSONData |-> GoMap([key \in {kApiToken} |-> <<"t", "o", "k">>])],
   [JSONData |-> JObj(<< <<kAccountId, JStr(<<"a", "c", "c">>)>>, <<kDatabaseId, JStr(<<>>)>> >>),
    DecryptedSecureJSONData |-> GoMap([key \in {kApiToken} |-> <<"t", "o", "k">>])]}

\* the JSON values of a cell
Scalars ==
  {JNull, JNum(1), JNum(42), JStr(tsD1), JStr(tsRFC), JStr(notTime), JBool(TRUE),
   JArr(<<JNum(1)>>)}

\* the cells of the columns beside the one that takes every scalar
Thin == {JNum(7)}

ColumnLists == {<<>>, <<cId>>, <<cName, cId>>, <<cId, cName>>, <<cId, cId>>}

MaxRowLen == SetMax({Len(c) : c \in ColumnLists})

\* rows of 0..MaxRowLen cells: cell j holds any scalar, the others a thin one
RowsRich(j) ==
  UNION {{r \in [1..n -> Scalars \cup Thin] : \A k \in 1..n : r[k] \in (IF k = j THEN Scalars ELSE Thin)}
         : n \in 0..MaxRowLen}

\* the first two rows are any rows; a further row repeats one of them or is empty
Tables ==
  UNION {{t \in [1..m -> RowsRich(j)] : \A k \in 3..m : t[k] \in {t[1], t[2], <<>>}}
         : m \in 0..MaxRows, j \in 1..MaxRowLen}

ResultsJSON(columns, rows) ==
  JObj(<< <<kColumns, JArr([i \in 1..Len(columns) |-> JStr(columns[i])])>>,
          <<kRows, JArr([i \in 1..Len(rows) |-> JArr(rows[i])])>> >>)

ItemJSON(success, resultsJ) == JObj(<< <<kResults, resultsJ>>, <<kSuccess, JBool(success)>> >>)

ErrorJSON(code, message) == JObj(<< <<kCode, JNum(code)>>, <<kMessage, JStr(message)>> >>)

Envelope(success, errors, result) ==
  JObj(<< <<kResult, JArr(result)>>, <<kSuccess, JBool(success)>>, <<kErrors, JArr(errors)>> >>)

Response(status, body) == [k |-> "response", status |-> status, body |-> body]

\* a batch of one query whose 200 response is a successful envelope with one
\* result item of the given columns and rows
TableBatch(sc, columns, rows) ==
  <<[q |-> [RefID |-> "A", JSON |-> JObj(<< <<kQueryText, JStr(sqlSelect)>> >>)],
     env |-> Response(200, Envelope(TRUE, <<>>, <<ItemJSON(sc, ResultsJSON(columns, rows))>>))]>>

\* a few result items for the envelopes of the other responses
SmallItems ==
  {JObj(<< <<kSuccess, JBool(TRUE)>> >>),
   ItemJSON(TRUE, JNull),
   ItemJSON(FALSE, JNull),
   ItemJSON(TRUE, ResultsJSON(<<>>, <<>>)),
   ItemJSON(FALSE, ResultsJSON(<<>>, <<>>)),
   ItemJSON(TRUE, ResultsJSON(<<cName, cId>>, <<>>)),
   ItemJSON(TRUE, ResultsJSON(<<cName, cId>>, << <<JStr(notTime), JNum(1)>> >>)),
   ItemJSON(FALSE, ResultsJSON(<<cId>>, << <<JNum(42)>> >>))}

ErrorLists ==
  {<<>>, <<ErrorJSON(7500, <<"b", "o", "o", "m">>)>>,
   <<ErrorJSON(7500, <<"b", "o", "o", "m">>), ErrorJSON(1, <<"n", "o">>)>>}

ResultLists == UNION {[1..n -> SmallItems] : n \in 0..MaxResultItems}

\* bodies: no JSON, JSON of another shape, envelopes
PlumbingBodies ==
  {Garbage("<html>"), JNull, JArr(<<>>),
   JObj(<< <<kSuccess, JStr(<<"t", "r", "u", "e">>)>> >>),
   JObj(<< <<kSuccess, JBool(TRUE)>> >>),
   JObj(<< <<kSuccess, JBool(TRUE)>>, <<kResult, JNull>> >>)}
  \cup {Envelope(sc, e, r) : sc \in BOOLEAN, e \in ErrorLists, r \in ResultLists}

Statuses == {200, 201, 403}

\* further statuses of the 2xx class: Accepted and No Content
OtherStatuses == {202, 204}

PlumbingEnvs ==
  {[k |-> "transport"]} \cup {[k |-> "read", status |-> 200]}
  \cup {Response(st, b) : st \in Statuses, b \in PlumbingBodies}
  \cup {Response(st, b) : st \in OtherStatuses,
           b \in {Garbage(""),
                  Envelope(TRUE, <<>>,
                      <<ItemJSON(TRUE, ResultsJSON(<<cId>>, << <<JNum(42)>> >>))>>)}}

QueryOK == JObj(<< <<kQueryText, JStr(sqlSelect)>> >>)

\* query JSON the handler rejects: no JSON, wrong type, empty or missing text
QueriesRejected ==
  {Garbage("{"), JObj(<< <<kQueryText, JNum(1)>> >>), JObj(<< <<kQueryText, JStr(<<>>)>> >>),
   JObj(<<>>), JNull}

\* the few responses paired with rejected queries and used in longer batches
FewEnvs ==
  {[k |-> "transport"], Response(403, Garbage("<html>")),
   Response(200, Envelope(FALSE, <<ErrorJSON(7500, <<"b", "o", "o", "m">>)>>, <<>>)),
   Response(200, Envelope(TRUE, <<>>,
       <<ItemJSON(TRUE, ResultsJSON(<<cName, cId>>, << <<JStr(notTime), JNum(1)>> >>))>>))}

\* one query of a batch together with what the network answers it
Exchange(refID, json, env) == [q |-> [RefID |-> refID, JSON |-> json], env |-> env]

SingleExchanges ==
  {Exchange("A", QueryOK, env) : env \in PlumbingEnvs}
  \cup {Exchange("A", j, env) : j \in QueriesRejected, env \in FewEnvs}

FewExchanges ==
  {Exchange(r, j, env) : r \in {"A", "B"}, j \in {QueryOK, JObj(<<>>)}, env \in FewEnvs}

\* an instance with its three settings takes every batch, another the few
complete(d) == d.AccountID # <<>> /\ d.DatabaseID # <<>> /\ d.Secrets.APIToken # <<>>

FewBatches == UNION {[1..n -> FewExchanges] : n \in 1..MaxBatch}

Batches == {<<x>> : x \in SingleExchanges} \cup FewBatches

\* an instance with a missing field is given batches of one query
BatchesOf(d) == IF complete(d) THEN Batches ELSE {<<x>> : x \in FewExchanges}

(***************************************************************************)
(* The /query shape: rows are objects                                      *)
(***************************************************************************)
LegacyKeyLists == {<<>>, <<cName>>, <<cName, cId>>, <<cId, cName>>, <<cAt, cId>>}

\* rows of the keys ks: key j holds any scalar, the others a thin one
LegacyRowsRich(ks, j) ==
  {JObj([i \in 1..Len(ks) |-> <<ks[i], IF i = j THEN v ELSE JNum(7)>>]) : v \in Scalars}

\* rows that lack keys of the other rows
LegacyShortRows == {JObj(<<>>), JObj(<< <<cId, JNum(42)>> >>)}

LegacyTables ==
  UNION {{t \in [1..m -> LegacyRowsRich(ks, j) \cup LegacyShortRows] :
            \A k \in 3..m : t[k] \in {t[1], t[2], JObj(<<>>)}}
         : m \in 0..MaxRows, ks \in LegacyKeyLists, j \in 1..MaxRowLen}

LegacyTableBatch(rows) ==
  <<[q |-> [RefID |-> "A", JSON |-> JObj(<< <<kQueryText, JStr(sqlSelect)>> >>)],
     env |-> Response(200, Envelope(TRUE, <<>>, <<ItemJSON(TRUE, JArr(rows))>>))]>>

\* a result item of the /query shape with one row
LegacyItem == ItemJSON(TRUE, JArr(<<JObj(<< <<cId, JNum(42)>> >>)>>))

LegacyEnvs ==
  {Response(200, Envelope(TRUE, <<>>, <<>>)), Response(403, Garbage("<html>")),
   [k |-> "transport"], [k |-> "read", status |-> 200],
   Response(200, Garbage("<html>")), Response(200, JArr(<<>>)),
   Response(201, Envelope(TRUE, <<>>, <<LegacyItem>>)),
   Response(403, Envelope(TRUE, <<>>, <<LegacyItem>>)),
   Response(200, Envelope(TRUE, <<>>, <<ItemJSON(TRUE, JArr(<<>>)), LegacyItem>>)),
   Response(200, Envelope(TRUE, <<>>,
       <<LegacyItem, ItemJSON(TRUE, JArr(<<JObj(<< <<cName, JStr(notTime)>> >>)>>))>>))}
  \cup {Response(st, Envelope(TRUE, <<>>, <<LegacyItem>>)) : st \in OtherStatuses}
  \cup {Response(200, Envelope(FALSE, e, r)) : e \in ErrorLists, r \in {<<>>, <<LegacyItem>>}}

LegacyFewEnvs ==
  {[k |-> "transport"], Response(403, Garbage("<html>")),
   Response(200, Envelope(FALSE, <<ErrorJSON(7500, <<"b", "o", "o", "m">>)>>, <<>>)),
   Response(200, Envelope(TRUE, <<>>, <<LegacyItem>>))}

LegacyFewExchanges ==
  {Exchange(r, j, env) : r \in {"A", "B"}, j \in {QueryOK, JObj(<<>>)}, env \in LegacyFewEnvs}

LegacyFewBatches == UNION {[1..n -> LegacyFewExchanges] : n \in 1..MaxBatch}

LegacyBatches ==
  {<<Exchange("A", QueryOK, env)>> : env \in LegacyEnvs}
  \cup {<<Exchange("A", JObj(<<>>), [k |-> "transport"])>>}
  \cup LegacyFewBatches

LegacyBatchesOf(d) == IF complete(d) THEN LegacyBatches ELSE {<<x>> : x \in LegacyFewExchanges}

\* what the network does with the probe of a health check
HealthBodies ==
  {Garbage(""), Garbage("<html>"), Envelope(TRUE, <<>>, <<>>),
   Envelope(FALSE, <<ErrorJSON(7500, <<"b", "o", "o", "m">>)>>, <<>>)}

HealthEnvs ==
  {[k |-> "transport"]} \cup {[k |-> "read", status |-> st] : st \in Statuses \cup OtherStatuses}
  \cup {Response(st, b) : st \in Statuses \cup OtherStatuses, b \in HealthBodies}

(***************************************************************************)
(* The state machine: the host calls QueryData and takes the response      *)
(***************************************************************************)
NoCall == [op |-> "none"]

\* variant: the first failing query ends the batch, later queries get no response
responsesOf_AbortOnError(batch, results) ==
  LET kept == {i \in 1..Len(batch) : \A j \in 1..(i - 1) : results[j].resp.Error = NoError}
  IN  [r \in {batch[i].q.RefID : i \in kept} |->
         results[SetMax({i \in kept : batch[i].q.RefID = r})].resp]

\* response.Responses: the last response stored under each RefID
responsesOf(batch, results) ==
  [r \in {batch[i].q.RefID : i \in 1..Len(batch)} |->
     results[SetMax({i \in 1..Len(batch) : batch[i].q.RefID = r})].resp]

Init ==
  /\ settings \in {NewDatasource(src).v : src \in {x \in InstanceSources : NewDatasource(x).ok}}
  /\ pc = "idle"
  /\ call = NoCall
  /\ responses = <<>>
  /\ trace = <<>>

\* variant: a batch with a failed query drops the token of the instance
Serve_ForgetsToken(batch) ==
  /\ LET results == [i \in 1..Len(batch) |-> query(settings, batch[i].q, batch[i].env)]
     IN  /\ trace' = results
         /\ responses' = responsesOf(batch, results)
         /\ settings' = IF \E i \in 1..Len(batch) : results[i].resp.Error # NoError
                           THEN [settings EXCEPT !.Secrets.APIToken = <<>>]
                           ELSE settings
  /\ call' = [op |-> "QueryData", batch |-> batch, err |-> NoError]
  /\ pc' = "returned"

\* Datasource.QueryData of part_004 on a batch: one query call per entry
Serve(batch) ==
  /\ LET results == [i \in 1..Len(batch) |-> query(settings, batch[i].q, batch[i].env)]
     IN  /\ trace' = results
         /\ responses' = responsesOf(batch, results)
  /\ call' = [op |-> "QueryData", batch |-> batch, err |-> NoError]
  /\ pc' = "returned"
  /\ UNCHANGED settings

QueryData ==
  /\ pc = "idle"
  /\ \/ \E batch \in BatchesOf(settings) : Serve(batch)
     \/ /\ complete(settings)
        /\ \E c \in ColumnLists, t \in Tables :
             \E sc \in (IF t = <<>> THEN BOOLEAN ELSE {TRUE}) : Serve(TableBatch(sc, c, t))

\* Datasource.QueryData of pkg/plugin/datasource.go
ServeLegacy(batch) ==
  /\ \E rng \in [1..Len(batch) -> RangeOrders] :
       LET results == [i \in 1..Len(batch) |->
                         queryLegacy(settings, batch[i].q, batch[i].env, rng[i])]
       IN  /\ trace' = results
           /\ responses' = responsesOf(batch, results)
  /\ call' = [op |-> "QueryDataLegacy", batch |-> batch, err |-> NoError]
  /\ pc' = "returned"
  /\ UNCHANGED settings

QueryDataLegacy ==
  /\ pc = "idle"
  /\ \/ \E batch \in LegacyBatchesOf(settings) : ServeLegacy(batch)
     \/ /\ complete(settings)
        /\ \E t \in LegacyTables : ServeLegacy(LegacyTableBatch(t))

\* Datasource.CheckHealth of part_004: one probe, its result handed back
CheckHealth ==
  /\ pc = "idle"
  /\ \E env \in HealthEnvs :
       /\ trace' = <<checkHealth(settings, env)>>
       /\ call' = [op |-> "CheckHealth", env |-> env]
  /\ responses' = <<>>
  /\ pc' = "returned"
  /\ UNCHANGED settings

\* Datasource.CheckHealth of pkg/plugin/datasource.go
CheckHealthLegacy ==
  /\ pc = "idle"
  /\ \E env \in HealthEnvs :
       /\ trace' = <<checkHealthLegacy(settings, env)>>
       /\ call' = [op |-> "CheckHealthLegacy", env |-> env]
  /\ responses' = <<>>
  /\ pc' = "returned"
  /\ UNCHANGED settings

\* the host has the response; nothing of the request is kept
HandBack ==
  /\ pc = "returned"
  /\ pc' = "idle"
  /\ call' = NoCall
  /\ responses' = <<>>
  /\ trace' = <<>>
  /\ UNCHANGED settings

Next ==
  \/ QueryData
  \/ QueryDataLegacy
  \/ CheckHealth
  \/ CheckHealthLegacy
  \/ HandBack

Spec == Init /\ [][Next]_vars

(***************************************************************************)
(* What the properties read from a state: the batch QueryData was given    *)
(* and what it produced, entry by entry.                                   *)
(***************************************************************************)
Raw == call.op = "QueryData"
Legacy == call.op = "QueryDataLegacy"

Entries == IF call.op \in {"QueryData", "QueryDataLegacy"} THEN 1..Len(call.batch) ELSE {}

sentJSON(i) == call.batch[i].q.JSON
envOf(i) == call.batch[i].env
respOf(i) == trace[i].resp

\* the query JSON holds a non-empty text
hasText(i) ==
  /\ sentJSON(i).k = "obj"
  /\ jget(sentJSON(i), kQueryText).k = "str"
  /\ jget(sentJSON(i), kQueryText).s # <<>>

\* the query JSON is well formed and its text is the empty string
emptyText(i) ==
  \/ sentJSON(i).k = "null"
  \/ /\ sentJSON(i).k = "obj"
     /\ jget(sentJSON(i), kQueryText) \in {Absent, JNull, JStr(<<>>)}

\* the call got 200 and a body that decodes to an envelope with success = true
decodes(i) == IF Raw THEN UnmarshalRawAPIResponse(envOf(i).body).ok
              ELSE UnmarshalAPIResponse(envOf(i).body).ok

successful(i) ==
  /\ hasText(i)
  /\ envOf(i).k = "response"
  /\ envOf(i).status = 200
  /\ decodes(i)
  /\ envOf(i).body.k = "obj"
  /\ jget(envOf(i).body, kSuccess) = JBool(TRUE)

\* the result array of the body, and its first item
resultJ(i) == jget(envOf(i).body, kResult)
noItems(i) == unset(resultJ(i)) \/ resultJ(i).a = <<>>
item1(i) == resultJ(i).a[1]
itemSuccess(i) == item1(i).k = "obj" /\ jget(item1(i), kSuccess) = JBool(TRUE)
\* the first item's results payload (an object in the /raw shape)
payloadJ(i) == IF item1(i).k = "obj" THEN jget(item1(i), kResults) ELSE Absent
noPayload(i) == ~noItems(i) /\ unset(payloadJ(i))
hasPayload(i) == ~noItems(i) /\ payloadJ(i).k = "obj"

\* columns and rows of the first item as the API sent them: names, JSON cells
columnsOf(i) ==
  LET c == jget(payloadJ(i), kColumns)
  IN  IF unset(c) THEN <<>> ELSE [n \in 1..Len(c.a) |-> c.a[n].s]
rowsOf(i) ==
  LET r == jget(payloadJ(i), kRows)
  IN  IF unset(r) THEN <<>> ELSE [n \in 1..Len(r.a) |-> IF unset(r.a[n]) THEN <<>> ELSE r.a[n].a]

\* the JSON cell of row r at column c, null when the row is too short
cellAt(i, r, c) == IF c <= Len(rowsOf(i)[r]) THEN rowsOf(i)[r][c] ELSE JNull

\* a /raw call that reaches the type inference: rows and columns are there
tabular(i) ==
  Raw /\ successful(i) /\ hasPayload(i) /\ Len(rowsOf(i)) > 0 /\ Len(columnsOf(i)) > 0

\* the one frame of a response, and its fields
oneFrame(i) == respOf(i).Error = NoError /\ Len(respOf(i).Frames) = 1
fieldsOf(i) == respOf(i).Frames[1].Fields

(***************************************************************************)
(* C1: a query whose queryText is the empty string gets the error          *)
(* "empty query text" and no frame, and no HTTP request is sent for it.    *)
(***************************************************************************)
C1_EmptyTextRejected ==
  \A i \in Entries :
    emptyText(i) =>
      /\ respOf(i).Error = Errorf("empty query text", <<>>)
      /\ respOf(i).Frames = <<>>
      /\ trace[i].reqs = <<>>

C1_Witness ==
  /\ Raw
  /\ \E i \in Entries :
       /\ sentJSON(i) = JObj(<< <<kQueryText, JStr(<<>>)>> >>)
       /\ envOf(i).k = "response"
       /\ respOf(i).Error = Errorf("empty query text", <<>>)
       /\ trace[i].reqs = <<>>

legacyRowsOf(i) == payloadJ(i).a

legacyKeys(row) == {row.o[n][1] : n \in 1..Len(row.o)}

legacyTabular(i) ==
  /\ Legacy /\ successful(i) /\ ~noItems(i)
  /\ payloadJ(i).k = "arr" /\ Len(legacyRowsOf(i)) > 0

(***************************************************************************)
(* C3: in the implementation that reads the /query shape, the fields are   *)
(* exactly the keys of the first row, in ascending order of Go's string    *)
(* comparison, whatever the order of the keys in the row.                  *)
(***************************************************************************)
C3_LegacyFieldsSorted ==
  \A i \in Entries :
    legacyTabular(i) =>
      /\ oneFrame(i)
      /\ Len(fieldsOf(i)) = Cardinality(legacyKeys(legacyRowsOf(i)[1]))
      /\ {fieldsOf(i)[c].Name : c \in 1..Len(fieldsOf(i))} = legacyKeys(legacyRowsOf(i)[1])
      /\ \A c, d \in 1..Len(fieldsOf(i)) :
           c < d => StrLess(fieldsOf(i)[c].Name, fieldsOf(i)[d].Name)

\* the row lists name before id, the frame id before name
C3_Witness ==
  \E i \in Entries :
    /\ legacyTabular(i)
    /\ Len(legacyRowsOf(i)[1].o) = 2
    /\ legacyRowsOf(i)[1].o[1][1] = cName
    /\ legacyRowsOf(i)[1].o[2][1] = cId
    /\ fieldsOf(i)[1].Name = cId
    /\ fieldsOf(i)[2].Name = cName

\* the type the first row's JSON value gives a column of the /raw shape
SampleType(cell) ==
  CASE cell.k = "num" -> "[]*float64"
    [] cell.k = "bool" -> "[]*bool"
    [] cell.k = "str" /\ cell.s \in {tsD1, tsRFC} -> "[]*time.Time"
    [] OTHER -> "[]*string"

\* the same for the /query shape, which knows RFC 3339 only
LegacySampleType(cell) ==
  CASE cell.k = "num" -> "[]*float64"
    [] cell.k = "bool" -> "[]*bool"
    [] cell.k = "str" /\ cell.s = tsRFC -> "[]*time.Time"
    [] OTHER -> "[]*string"

PointerType(fieldType) ==
  CASE fieldType = "[]*float64" -> "*float64"
    [] fieldType = "[]*bool" -> "*bool"
    [] fieldType = "[]*time.Time" -> "*time.Time"
    [] fieldType = "[]*string" -> "*string"

OneType(field) ==
  /\ field.Type \in {"[]*float64", "[]*string", "[]*bool", "[]*time.Time"}
  /\ \A r \in 1..Len(field.Values) : field.Values[r].t \in {"nil", PointerType(field.Type)}

(***************************************************************************)
(* C4: every column has one type, Number, String, Boolean or Timestamp,    *)
(* fixed by the value of row 0 at the column alone: whatever the later     *)
(* rows hold, the type is the one listed here for the first row's value,   *)
(* and every value present in the column is of that type.                  *)
(***************************************************************************)
C4_TypeFromFirstRow ==
  \A i \in Entries :
    /\ tabular(i) =>
         /\ oneFrame(i)
         /\ Len(fieldsOf(i)) = Len(columnsOf(i))
         /\ \A c \in 1..Len(columnsOf(i)) :
              /\ fieldsOf(i)[c].Type = SampleType(cellAt(i, 1, c))
              /\ OneType(fieldsOf(i)[c])
    /\ legacyTabular(i) =>
         /\ oneFrame(i)
         /\ \A c \in 1..Len(fieldsOf(i)) :
              /\ fieldsOf(i)[c].Type =
                   LegacySampleType(jget(legacyRowsOf(i)[1], fieldsOf(i)[c].Name))
              /\ OneType(fieldsOf(i)[c])

\* a number column whose second row holds a string
C4_Witness ==
  \E i \in Entries :
    /\ tabular(i)
    /\ Len(rowsOf(i)) = MaxRows
    /\ cellAt(i, 1, 1) = JNum(1)
    /\ cellAt(i, 2, 1) = JStr(tsD1)
    /\ fieldsOf(i)[1].Type = "[]*float64"

(***************************************************************************)
(* C5: in a column whose first-row value is a number, the value at row r   *)
(* is the number row r holds there, or absent when row r holds null, a     *)
(* string, a boolean or nothing; it is never a string or a coerced value.  *)
(***************************************************************************)
C5_NumberColumn ==
  \A i \in Entries :
    /\ tabular(i) =>
         /\ oneFrame(i)
         /\ Len(fieldsOf(i)) = Len(columnsOf(i))
         /\ \A c \in 1..Len(columnsOf(i)) :
              cellAt(i, 1, c).k = "num" =>
                /\ Len(fieldsOf(i)[c].Values) = Len(rowsOf(i))
                /\ \A r \in 1..Len(rowsOf(i)) :
                     fieldsOf(i)[c].Values[r] =
                       IF cellAt(i, r, c).k = "num" THEN PtrFloat(cellAt(i, r, c).n) ELSE NilPtr
    /\ legacyTabular(i) =>
         /\ oneFrame(i)
         /\ \A c \in 1..Len(fieldsOf(i)) :
              jget(legacyRowsOf(i)[1], fieldsOf(i)[c].Name).k = "num" =>
                \A r \in 1..Len(legacyRowsOf(i)) :
                  LET cell == jget(legacyRowsOf(i)[r], fieldsOf(i)[c].Name)
                  IN  fieldsOf(i)[c].Values[r] = IF cell.k = "num" THEN PtrFloat(cell.n) ELSE NilPtr

\* 1 in the first row, 42 in the second
C5_Witness ==
  \E i \in Entries :
    /\ tabular(i)
    /\ cellAt(i, 1, 1) = JNum(1)
    /\ Len(rowsOf(i)) = MaxRows
    /\ cellAt(i, 2, 1) = JNum(42)
    /\ fieldsOf(i)[1].Values[1] = PtrFloat(1)
    /\ fieldsOf(i)[1].Values[2] = PtrFloat(42)

\* the times the two time strings of the model stand for
TimeOf(s) ==
  IF s = tsD1
    THEN [year |-> 2024, month |-> 1, day |-> 2, hour |-> 3, min |-> 4, sec |-> 5,
          nsec |-> 0, offset |-> 0]
    ELSE [year |-> 2024, month |-> 3, day |-> 4, hour |-> 5, min |-> 6, sec |-> 7,
          nsec |-> 500000000, offset |-> 3600]

isTimeString(cell) == cell.k = "str" /\ cell.s \in {tsD1, tsRFC}

warned(i, colName, r, value) ==
  \E n \in 1..Len(trace[i].logs) :
    /\ trace[i].logs[n].level = "warn"
    /\ SubSeq(trace[i].logs[n].kv, 1, 6) = <<"column", colName, "row_index", r - 1, "value", value>>

\* the /raw implementation on a column whose first row is a time string
rawTimestampColumn(i) ==
  /\ oneFrame(i)
  /\ Len(fieldsOf(i)) = Len(columnsOf(i))
  /\ \A c \in 1..Len(columnsOf(i)) :
       isTimeString(cellAt(i, 1, c)) =>
         /\ fieldsOf(i)[c].Type = "[]*time.Time"
         /\ \A r \in 1..Len(rowsOf(i)) :
              LET cell == cellAt(i, r, c)
              IN  /\ isTimeString(cell) => fieldsOf(i)[c].Values[r] = PtrTime(TimeOf(cell.s))
                  /\ cell.k = "str" /\ ~isTimeString(cell) =>
                       /\ fieldsOf(i)[c].Values[r] = NilPtr
                       /\ warned(i, columnsOf(i)[c], r, cell.s)

(***************************************************************************)
(* C6 as claimed: for every column whose first-row value is a string in    *)
(* the layout YYYY-MM-DD HH:MM:SS or in RFC 3339 with fractional seconds,  *)
(* the column is a Timestamp column, a row in either layout yields its     *)
(* time whichever layout the first row has, and a row string in neither    *)
(* layout is absent with a warning logged, never a query error; in the     *)
(* /raw implementation and in the /query implementation alike.             *)
(***************************************************************************)
C6_Claimed_BothLayouts ==
  \A i \in Entries :
    /\ tabular(i) => rawTimestampColumn(i)
    /\ legacyTabular(i) =>
         /\ oneFrame(i)
         /\ \A c \in 1..Len(fieldsOf(i)) :
              isTimeString(jget(legacyRowsOf(i)[1], fieldsOf(i)[c].Name)) =>
                /\ fieldsOf(i)[c].Type = "[]*time.Time"
                /\ \A r \in 1..Len(legacyRowsOf(i)) :
                     LET cell == jget(legacyRowsOf(i)[r], fieldsOf(i)[c].Name)
                     IN  /\ isTimeString(cell) =>
                              fieldsOf(i)[c].Values[r] = PtrTime(TimeOf(cell.s))
                         /\ cell.k = "str" /\ ~isTimeString(cell) =>
                              /\ fieldsOf(i)[c].Values[r] = NilPtr
                              /\ warned(i, fieldsOf(i)[c].Name, r, cell.s)

(***************************************************************************)
(* C6 amended: the claim holds of the /raw implementation.  In the /query  *)
(* implementation only a first-row string in RFC 3339 makes the column a   *)
(* Timestamp column (a first row in the layout YYYY-MM-DD HH:MM:SS gives a *)
(* String column holding the strings as they are); each row is parsed      *)
(* against RFC 3339 only, and a row that is no RFC 3339 string is absent   *)
(* and no warning is logged.  Neither implementation returns an error.     *)
(***************************************************************************)
C6_TimestampColumn ==
  \A i \in Entries :
    /\ tabular(i) => rawTimestampColumn(i)
    /\ legacyTabular(i) =>
         /\ oneFrame(i)
         /\ \A n \in 1..Len(trace[i].logs) : trace[i].logs[n].level # "warn"
         /\ \A c \in 1..Len(fieldsOf(i)) :
              LET sample == jget(legacyRowsOf(i)[1], fieldsOf(i)[c].Name) IN
              /\ sample = JStr(tsRFC) =>
                   /\ fieldsOf(i)[c].Type = "[]*time.Time"
                   /\ \A r \in 1..Len(legacyRowsOf(i)) :
                        LET cell == jget(legacyRowsOf(i)[r], fieldsOf(i)[c].Name)
                        IN  fieldsOf(i)[c].Values[r] =
                              IF cell = JStr(tsRFC) THEN PtrTime(TimeOf(tsRFC)) ELSE NilPtr
              /\ sample.k = "str" /\ sample # JStr(tsRFC) =>
                   /\ fieldsOf(i)[c].Type = "[]*string"
                   /\ \A r \in 1..Len(legacyRowsOf(i)) :
                        LET cell == jget(legacyRowsOf(i)[r], fieldsOf(i)[c].Name)
                        IN  fieldsOf(i)[c].Values[r] =
                              IF cell.k = "str" THEN PtrString(cell.s) ELSE NilPtr

\* the first row in the SQLite layout, the second in RFC 3339; or the second no time
C6_Witness ==
  \E i \in Entries :
    /\ tabular(i)
    /\ Len(rowsOf(i)) = MaxRows
    /\ cellAt(i, 1, 1) = JStr(tsD1)
    /\ cellAt(i, 2, 1) = JStr(tsRFC)
    /\ fieldsOf(i)[1].Values[2] = PtrTime(TimeOf(tsRFC))

\* the /query implementation on the SQLite layout: a String column
C6_WitnessLegacy ==
  \E i \in Entries :
    /\ legacyTabular(i)
    /\ Len(legacyRowsOf(i)) = MaxRows
    /\ Len(fieldsOf(i)) > 0
    /\ jget(legacyRowsOf(i)[1], fieldsOf(i)[1].Name) = JStr(tsD1)
    /\ jget(legacyRowsOf(i)[2], fieldsOf(i)[1].Name) = JStr(tsRFC)
    /\ fieldsOf(i)[1].Type = "[]*string"
    /\ fieldsOf(i)[1].Values[2] = PtrString(tsRFC)

C6_WitnessWarning ==
  \E i \in Entries :
    /\ tabular(i)
    /\ Len(rowsOf(i)) = MaxRows
    /\ cellAt(i, 1, 1) = JStr(tsRFC)
    /\ cellAt(i, 2, 1) = JStr(notTime)
    /\ fieldsOf(i)[1].Values[2] = NilPtr
    /\ warned(i, columnsOf(i)[1], 2, notTime)

\* the no-row cases of the /raw shape and of the /query shape
rawNoRows(i) ==
  Raw /\ successful(i) /\ (noItems(i) \/ noPayload(i) \/ (hasPayload(i) /\ rowsOf(i) = <<>>))

legacyNoRows(i) ==
  Legacy /\ successful(i)
    /\ (noItems(i) \/ noPayload(i) \/ (payloadJ(i).k = "arr" /\ payloadJ(i).a = <<>>))

(***************************************************************************)
(* C7: when the envelope is successful and there is no row to show (the    *)
(* result array is empty, the first item has no results payload, or its    *)
(* rows are empty, with or without columns), the response has no error and *)
(* one frame with no field and exactly one notice.                         *)
(***************************************************************************)
C7_NoRowsOneNotice ==
  \A i \in Entries :
    rawNoRows(i) \/ legacyNoRows(i) =>
      /\ respOf(i).Error = NoError
      /\ Len(respOf(i).Frames) = 1
      /\ respOf(i).Frames[1].Fields = <<>>
      /\ Len(respOf(i).Frames[1].Notices) = 1

\* columns without rows
C7_Witness ==
  \E i \in Entries :
    /\ rawNoRows(i)
    /\ hasPayload(i)
    /\ columnsOf(i) = <<cName, cId>>
    /\ respOf(i).Frames[1].Fields = <<>>
    /\ Len(respOf(i).Frames[1].Notices) = 1

noticeOf(i) == respOf(i).Frames[1].Notices[1]

(***************************************************************************)
(* C8: with a results payload of no column and no row and the item's own   *)
(* success flag true, the notice is "executed successfully, no data        *)
(* returned"; when the result array is empty, the item has no results      *)
(* payload, or there are columns and no row, it is "Query returned no      *)
(* data."                                                                  *)
(***************************************************************************)
C8_NoticeText ==
  \A i \in Entries :
    rawNoRows(i) =>
      /\ oneFrame(i)
      /\ Len(respOf(i).Frames[1].Notices) = 1
      /\ (hasPayload(i) /\ columnsOf(i) = <<>> /\ itemSuccess(i)) =>
           noticeOf(i).Text = "Query executed successfully, no data returned (e.g., DDL statement)."
      /\ (noItems(i) \/ noPayload(i) \/ (hasPayload(i) /\ columnsOf(i) # <<>>)) =>
           noticeOf(i).Text = "Query returned no data."

C8_Witness ==
  \E i \in Entries :
    /\ rawNoRows(i)
    /\ hasPayload(i) /\ columnsOf(i) = <<>> /\ itemSuccess(i)
    /\ noticeOf(i).Text = "Query executed successfully, no data returned (e.g., DDL statement)."

C8_WitnessNoData ==
  \E i \in Entries :
    /\ rawNoRows(i)
    /\ hasPayload(i) /\ columnsOf(i) # <<>>
    /\ noticeOf(i).Text = "Query returned no data."

noData9(i) ==
  Raw /\ successful(i)
    /\ (noItems(i) \/ noPayload(i) \/ (hasPayload(i) /\ rowsOf(i) = <<>> /\ columnsOf(i) = <<>>))

(***************************************************************************)
(* C9 as claimed: in every no-data case (result empty, no results payload, *)
(* or no row and no column) the notice is informational, whatever the      *)
(* item's own success flag.                                                *)
(***************************************************************************)
C9_Claimed_AlwaysInfo ==
  \A i \in Entries :
    noData9(i) \/ legacyNoRows(i) => oneFrame(i) /\ noticeOf(i).Severity = "info"

unsuccessfulEmpty(i) ==
  hasPayload(i) /\ rowsOf(i) = <<>> /\ columnsOf(i) = <<>> /\ ~itemSuccess(i)

(***************************************************************************)
(* C9 amended: in every no-data case the notice is informational, except   *)
(* that a results payload of no row and no column whose item has its own   *)
(* success flag false gets a notice of warning severity; it is never of    *)
(* error severity and the response has no error.  (The /query             *)
(* implementation has no such case: its notice is always informational.)   *)
(***************************************************************************)
C9_InfoUnlessItemFailed ==
  \A i \in Entries :
    /\ noData9(i) =>
         /\ oneFrame(i)
         /\ noticeOf(i).Severity = IF unsuccessfulEmpty(i) THEN "warning" ELSE "info"
    /\ legacyNoRows(i) => oneFrame(i) /\ noticeOf(i).Severity = "info"

C9_Witness ==
  \E i \in Entries :
    /\ noData9(i)
    /\ unsuccessfulEmpty(i)
    /\ noticeOf(i).Severity = "warning"

(***************************************************************************)
(* C10 as claimed: once the call returned 200, the body decoded and the    *)
(* envelope's success flag is true, the response of the /raw               *)
(* implementation has no error, whatever the shape of result[0].           *)
(***************************************************************************)
C10_Claimed_NeverError ==
  \A i \in Entries :
    Raw /\ successful(i) => respOf(i).Error = NoError

rowsNoColumns(i) == hasPayload(i) /\ rowsOf(i) # <<>> /\ columnsOf(i) = <<>>

(***************************************************************************)
(* C10 amended: under the same conditions the response has an error in one *)
(* case only, a result[0] with rows and an empty columns list, which gets  *)
(* the error "D1 /raw response has rows but no column names" and no frame; *)
(* every other shape (mixed types in a column, short and long rows, strings*)
(* that are no time) gets a frame and no error.                            *)
(***************************************************************************)
C10_ErrorOnlyWithoutColumns ==
  \A i \in Entries :
    Raw /\ successful(i) =>
      IF rowsNoColumns(i)
        THEN /\ respOf(i).Error = Errorf("D1 /raw response has rows but no column names", <<>>)
             /\ respOf(i).Frames = <<>>
        ELSE oneFrame(i)

\* a column of a number, a string and a short row, translated without error
C10_Witness ==
  \E i \in Entries :
    /\ tabular(i)
    /\ Len(rowsOf(i)) = MaxRows
    /\ cellAt(i, 1, 1) = JNum(1)
    /\ Len(rowsOf(i)[1]) > Len(columnsOf(i))
    /\ Len(rowsOf(i)[2]) < Len(columnsOf(i))
    /\ oneFrame(i)

C10_WitnessError ==
  \E i \in Entries :
    /\ Raw /\ successful(i) /\ rowsNoColumns(i)
    /\ respOf(i).Frames = <<>>

\* the request was sent and an HTTP response with a readable body came back
answered(i) == hasText(i) /\ envOf(i).k = "response"

\* C11: a query whose request is answered with a status outside 200..299 gets
\* an error made of the HTTP status and the raw body, and no frame; the body is
\* not decoded, so the error is the same whether or not it is an envelope.
C11_Non2xxIsError ==
  \A i \in Entries :
    (answered(i) /\ envOf(i).status \notin 200..299) =>
      /\ respOf(i).Error = <<"D1 API request failed with status %s. Response: %s",
                             <<envOf(i).status, envOf(i).body>> >>
      /\ respOf(i).Frames = <<>>
      /\ Len(trace[i].reqs) = 1

C11_Witness ==
  \E i \in Entries :
    /\ Raw
    /\ answered(i)
    /\ envOf(i).status = 403
    /\ envOf(i).body = Envelope(TRUE, <<>>, <<>>)
    /\ respOf(i).Error # NoError
    /\ respOf(i).Frames = <<>>

C11_WitnessLegacy ==
  \E i \in Entries :
    /\ Legacy
    /\ answered(i)
    /\ envOf(i).status = 403
    /\ envOf(i).body = Envelope(TRUE, <<>>, <<LegacyItem>>)
    /\ respOf(i).Error # NoError
    /\ respOf(i).Frames = <<>>

\* the body decoded into the envelope and its success flag is false
unsuccessful(i) ==
  /\ answered(i)
  /\ envOf(i).status = 200
  /\ decodes(i)
  /\ envOf(i).body.k = "obj"
  /\ jget(envOf(i).body, kSuccess) \in {JBool(FALSE), JNull, Absent}

errorsJ(i) ==
  IF jget(envOf(i).body, kErrors).k = "arr" THEN jget(envOf(i).body, kErrors).a ELSE <<>>

\* code and message of every entry of the errors list, in list order
listedErrors(i) ==
  [n \in 1..Len(errorsJ(i)) |->
     <<"Code ", jget(errorsJ(i)[n], kCode).n, ": ", jget(errorsJ(i)[n], kMessage).s, " ">>]

\* C12: a decoded response whose top-level success flag is false makes the
\* query fail with an error whose message holds the code and the message of
\* every entry of the errors list, in list order (nothing after the prefix
\* when the list is empty), and no frame, even if the result array has rows.
C12_UnsuccessfulIsError ==
  \A i \in Entries :
    unsuccessful(i) =>
      /\ respOf(i).Error = <<"D1 API error: %s", listedErrors(i)>>
      /\ respOf(i).Frames = <<>>

C12_Witness ==
  \E i \in Entries :
    /\ Raw
    /\ unsuccessful(i)
    /\ Len(errorsJ(i)) = 2
    /\ resultJ(i).k = "arr"
    /\ \E n \in 1..Len(resultJ(i).a) :
         /\ jget(resultJ(i).a[n], kResults).k = "obj"
         /\ jget(jget(resultJ(i).a[n], kResults), kRows).k = "arr"
         /\ jget(jget(resultJ(i).a[n], kResults), kRows).a # <<>>
    /\ respOf(i).Error[2][2][2] = 1
    /\ respOf(i).Frames = <<>>

C12_WitnessEmptyList ==
  \E i \in Entries :
    /\ unsuccessful(i)
    /\ errorsJ(i) = <<>>
    /\ respOf(i).Error = <<"D1 API error: %s", <<>> >>

C12_WitnessLegacy ==
  \E i \in Entries :
    /\ Legacy
    /\ unsuccessful(i)
    /\ Len(errorsJ(i)) = 2
    /\ resultJ(i) = JArr(<<LegacyItem>>)
    /\ respOf(i).Frames = <<>>

\* the body is no JSON text, or JSON of a shape the envelope cannot take
notEnvelope(i) ==
  \/ envOf(i).body.k \in {"garbage", "arr"}
  \/ /\ envOf(i).body.k = "obj"
     /\ jget(envOf(i).body, kSuccess).k = "str"

\* C13: a 200 response whose body is not valid JSON for the envelope makes the
\* query fail with an error that carries the parse error and the raw body,
\* and no frame.
C13_UndecodableIsError ==
  \A i \in Entries :
    (answered(i) /\ envOf(i).status = 200 /\ notEnvelope(i)) =>
      /\ Len(respOf(i).Error) = 2
      /\ respOf(i).Error[1] = (IF Raw THEN "error unmarshalling D1 API raw response: %w. Body: %s"
                                       ELSE "error unmarshalling D1 API response: %w. Body: %s")
      /\ respOf(i).Error[2][1] \in {"invalid character", "cannot unmarshal into Go value"}
      /\ respOf(i).Error[2][2] = envOf(i).body
      /\ respOf(i).Frames = <<>>

C13_Witness ==
  \E i \in Entries :
    /\ Raw
    /\ answered(i)
    /\ envOf(i).status = 200
    /\ envOf(i).body = Garbage("<html>")
    /\ respOf(i).Error[2] = <<"invalid character", Garbage("<html>")>>
    /\ respOf(i).Frames = <<>>

C13_WitnessLegacy ==
  \E i \in Entries :
    /\ Legacy
    /\ answered(i)
    /\ envOf(i).status = 200
    /\ envOf(i).body = JArr(<<>>)
    /\ respOf(i).Error[2] = <<"cannot unmarshal into Go value", JArr(<<>>)>>
    /\ respOf(i).Frames = <<>>

\* a health check has returned; what it was answered and what it produced
Health == call.op = "CheckHealth"
HealthLegacy == call.op = "CheckHealthLegacy"
Probed == Health \/ HealthLegacy
healthOut == trace[1]

\* the network fails the request of query i: no connection, no readable
\* body, or a status that is not 200
requestFails(i) ==
  \/ envOf(i).k \in {"transport", "read"}
  \/ envOf(i).status # 200

\* the network fails the probe: no connection or a status that is not 200
probeFails == call.env.k = "transport" \/ call.env.status # 200

\* C14: every query and every health check sends at most one HTTP request;
\* when that request fails nothing is sent after it and the failure is what
\* the caller gets.
C14_AtMostOneRequest ==
  /\ \A i \in Entries :
       /\ Len(trace[i].reqs) <= 1
       /\ (hasText(i) /\ requestFails(i)) =>
            /\ Len(trace[i].reqs) = 1
            /\ respOf(i).Error # NoError
            /\ respOf(i).Frames = <<>>
  /\ Probed =>
       /\ Len(healthOut.reqs) <= 1
       /\ (complete(settings) /\ probeFails) =>
            /\ Len(healthOut.reqs) = 1
            /\ healthOut.result.Status = "ERROR"

C14_Witness ==
  \E i \in Entries :
    /\ Raw
    /\ hasText(i)
    /\ envOf(i).k = "transport"
    /\ Len(trace[i].reqs) = 1
    /\ respOf(i).Error = <<"error executing D1 API request: %w", <<"transport">> >>

C14_WitnessHealth ==
  /\ Health
  /\ complete(settings)
  /\ call.env.k = "transport"
  /\ Len(healthOut.reqs) = 1
  /\ healthOut.result.Status = "ERROR"

refIDOf(i) == call.batch[i].q.RefID

\* no other query of the batch carries the RefID of query i
ownRefID(i) == \A j \in Entries : refIDOf(j) = refIDOf(i) => j = i

\* the last query of the batch that carries the RefID r
lastOf(r) == SetMax({i \in Entries : refIDOf(i) = r})

C15_WitnessLegacy ==
  /\ Legacy
  /\ Len(call.batch) = MaxBatch
  /\ refIDOf(1) # refIDOf(MaxBatch)
  /\ respOf(1).Error # NoError
  /\ respOf(MaxBatch).Error = NoError
  /\ responses[refIDOf(MaxBatch)].Frames # <<>>

C15_WitnessSharedRefID ==
  /\ Raw
  /\ Len(call.batch) = MaxBatch
  /\ refIDOf(1) = refIDOf(MaxBatch)
  /\ respOf(1).Error = NoError
  /\ respOf(MaxBatch).Error # NoError
  /\ responses[refIDOf(1)] = respOf(MaxBatch)

\* C16: no Query and no CheckHealth call, failed or not, changes the
\* instance's configuration (accountId, databaseId, apiToken): every step
\* leaves the settings as the construction made them, so that the call after
\* a failure works on the configuration of a fresh instance.
C16_SettingsKept == [][settings' = settings]_vars

C16_Witness ==
  /\ pc = "returned"
  /\ Raw
  /\ \E i \in Entries : hasText(i) /\ requestFails(i) /\ respOf(i).Error # NoError
  /\ settings \in {NewDatasource(src).v : src \in {x \in InstanceSources : NewDatasource(x).ok}}
  /\ complete(settings)

C16_WitnessHealth ==
  /\ pc = "returned"
  /\ Probed
  /\ healthOut.result.Status = "ERROR"
  /\ settings \in {NewDatasource(src).v : src \in {x \in InstanceSources : NewDatasource(x).ok}}

\* C17: on an instance whose apiToken, accountId or databaseId is empty,
\* CheckHealth returns Error status with a message that begins with
\* 'Health check failed:' and sends no request.
C17_MissingConfigReported ==
  (Probed /\ ~complete(settings)) =>
    /\ healthOut.result.Status = "ERROR"
    /\ healthOut.result.Message[1] = "Health check failed:"
    /\ healthOut.reqs = <<>>

\* the message is made of the status and, when there is one, the raw body
carriesUpstream(message) ==
  IF call.env.k = "response" /\ ~(call.env.body.k = "garbage" /\ call.env.body.raw = "")
    THEN message = <<"D1 API request failed with status ", call.env.status,
                     ". Response: ", call.env.body>>
    ELSE message = <<"D1 API request failed with status ", call.env.status>>

\* the body of the probe's answer is an envelope that reports success
envelopeSucceeds ==
  /\ call.env.k = "response"
  /\ call.env.body.k = "obj"
  /\ jget(call.env.body, kSuccess) = JBool(TRUE)

\* C18 as claimed: CheckHealth reports Ok only when the probe got a 2xx
\* response whose JSON envelope reports success.
C18_Claimed_OkNeedsSuccess ==
  (Probed /\ healthOut.result.Status = "OK") =>
    /\ call.env.k = "response"
    /\ call.env.status \in 200..299
    /\ envelopeSucceeds

\* C18: CheckHealth reports Ok exactly when the configuration is complete and
\* the probe was answered with status 200, whatever the body is (it is never
\* decoded); with any other status the result is Error and its message
\* carries the status and the raw body of the answer.
C18_OkIffStatus200 ==
  Probed =>
    /\ (healthOut.result.Status = "OK") <=>
         (complete(settings) /\ call.env.k # "transport" /\ call.env.status = 200)
    /\ healthOut.result.Status \in {"OK", "ERROR"}
    /\ (complete(settings) /\ call.env.k # "transport" /\ call.env.status # 200) =>
         carriesUpstream(healthOut.result.Message)
    /\ healthOut.err = NoError

C18_Witness ==
  /\ Health
  /\ call.env = Response(200, Envelope(FALSE, <<ErrorJSON(7500, <<"b", "o", "o", "m">>)>>, <<>>))
  /\ healthOut.result.Status = "OK"

C18_WitnessLegacy ==
  /\ HealthLegacy
  /\ call.env = Response(200, Garbage("<html>"))
  /\ healthOut.result.Status = "OK"

C18_WitnessCreated ==
  /\ Health
  /\ call.env = Response(201, Envelope(TRUE, <<>>, <<>>))
  /\ healthOut.result.Status = "ERROR"

\* every request a returned call has sent, with the SQL text it was sent for
sqlOf(i) == jget(sentJSON(i), kQueryText).s
Sent ==
  {<<trace[i].reqs[1], sqlOf(i), IF Raw THEN "raw" ELSE "query">> :
      i \in {j \in Entries : trace[j].reqs # <<>>}}
  \cup (IF Probed /\ healthOut.reqs # <<>>
          THEN {<<healthOut.reqs[1], <<"S", "E", "L", "E", "C", "T", " ", "1", ";">>, "query">>}
          ELSE {})

\* the request is a POST to path `last` of the configured database, with the
\* bearer token and the JSON body {"sql": sql}
posted(req, sql, last) ==
  /\ req.Method = "POST"
  /\ req.URL = <<"https://api.cloudflare.com/client/v4/accounts/", settings.AccountID,
                 "/d1/database/", settings.DatabaseID, "/", last>>
  /\ req.Authorization = <<"Bearer ", settings.Secrets.APIToken>>
  /\ req.Body = JObj(<< <<kSql, JStr(sql)>> >>)

\* C19 as claimed: Query and CheckHealth both post to the /raw path.
C19_Claimed_RawEndpoint ==
  \A x \in Sent : posted(x[1], x[2], "raw")

\* C19: every request is a POST to
\* https://api.cloudflare.com/client/v4/accounts/{accountId}/d1/database/{databaseId}/{path}
\* with the header Authorization: Bearer {apiToken} and the JSON body
\* {"sql": text}, the text being 'SELECT 1;' for a health check; the path is
\* raw for a query of part_004 and query for a health check of either file
\* and for a query of pkg/plugin/datasource.go.
C19_RequestShape ==
  \A x \in Sent :
    /\ posted(x[1], x[2], x[3])
    /\ x[1].ContentType = "application/json"

C19_Witness ==
  /\ Health
  /\ complete(settings)
  /\ Sent # {}
  /\ \A x \in Sent : x[1].URL[6] = "query" /\ x[1].Body = JObj(<< <<kSql, JStr(selectOne)>> >>)

C19_WitnessQuery ==
  /\ Raw
  /\ complete(settings)
  /\ Sent # {}
  /\ \A x \in Sent : x[1].URL[6] = "raw" /\ x[1].Body = JObj(<< <<kSql, JStr(sqlSelect)>> >>)

C19_WitnessLegacy ==
  /\ Legacy
  /\ complete(settings)
  /\ Sent # {}
  /\ \A x \in Sent : x[1].URL[6] = "query"

\* C20: on an instance whose accountId, databaseId or apiToken is empty every
\* query gets a configuration error at once and no request is sent.
C20_MissingConfigRejected ==
  ((Raw \/ Legacy) /\ ~complete(settings)) =>
    \A i \in Entries :
      /\ respOf(i).Error # NoError
      /\ respOf(i).Frames = <<>>
      /\ trace[i].reqs = <<>>

\* a second token, and the instance that differs from d in the token alone
otherToken == <<"k", "e", "y">>
withToken(d) == [d EXCEPT !.Secrets.APIToken = otherToken]

\* the source of an instance with the secret replaced by the second token
sourceWithToken(src) ==
  [src EXCEPT !.DecryptedSecureJSONData = GoMap([key \in {kApiToken} |-> otherToken])]

\* two runs of a query agree on the response and the log records, and their
\* requests differ in the Authorization header alone
queryAgrees(out, alt) ==
  /\ alt.resp = out.resp
  /\ alt.logs = out.logs
  /\ Len(alt.reqs) = Len(out.reqs)
  /\ \A n \in 1..Len(out.reqs) :
       /\ out.reqs[n].Authorization = <<"Bearer ", settings.Secrets.APIToken>>
       /\ alt.reqs[n].Authorization = <<"Bearer ", otherToken>>
       /\ alt.reqs[n] = [out.reqs[n] EXCEPT !.Authorization = <<"Bearer ", otherToken>>]

\* the same for two runs of a health check
healthAgrees(out, alt) ==
  /\ alt.result = out.result
  /\ alt.logs = out.logs
  /\ Len(alt.reqs) = Len(out.reqs)
  /\ \A n \in 1..Len(out.reqs) :
       alt.reqs[n] = [out.reqs[n] EXCEPT !.Authorization = <<"Bearer ", otherToken>>]

\* C21: the apiToken appears in no log record and in no error or health
\* message: the run of every query and every health check on an instance
\* that differs in the (non-empty) token alone gives the same response, the
\* same message and the same log records, its request differing in the
\* Authorization header only; loading the settings with another token changes
\* the token of the instance and nothing else.
C21_TokenNotDisclosed ==
  (settings.Secrets.APIToken \notin {<<>>, otherToken}) =>
    /\ Raw => \A i \in Entries :
         queryAgrees(trace[i], query(withToken(settings), call.batch[i].q, envOf(i)))
    /\ Legacy => \A i \in Entries : \A rng \in RangeOrders :
         queryAgrees(trace[i], queryLegacy(withToken(settings), call.batch[i].q, envOf(i), rng))
    /\ Health => healthAgrees(healthOut, checkHealth(withToken(settings), call.env))
    /\ HealthLegacy => healthAgrees(healthOut, checkHealthLegacy(withToken(settings), call.env))
    /\ \A src \in InstanceSources :
         (LoadPluginSettings(src).ok /\ LoadPluginSettings(src).v = settings) =>
           /\ LoadPluginSettings(sourceWithToken(src)).ok
           /\ LoadPluginSettings(sourceWithToken(src)).v = withToken(settings)

C21_Witness ==
  /\ Raw
  /\ complete(settings)
  /\ \E i \in Entries :
       /\ hasText(i)
       /\ envOf(i).k = "response"
       /\ envOf(i).status = 403
       /\ Len(trace[i].logs) = 2
       /\ trace[i].reqs[1].Authorization = <<"Bearer ", <<"t", "o", "k">> >>
       /\ respOf(i).Error # NoError

C21_WitnessHealth ==
  /\ Health
  /\ complete(settings)
  /\ Len(healthOut.logs) = 1
  /\ healthOut.reqs[1].Authorization = <<"Bearer ", <<"t", "o", "k">> >>

\* the generic text form (%v) of the non-string cells the inputs hold
genericText(cell) ==
  CASE cell = JNum(1) -> <<"1">>
    [] cell = JNum(7) -> <<"7">>
    [] cell = JNum(42) -> <<"4", "2">>
    [] cell = JBool(TRUE) -> <<"t", "r", "u", "e">>
    [] cell = JBool(FALSE) -> <<"f", "a", "l", "s", "e">>
    [] cell = JArr(<<JNum(1)>>) -> <<"[", "1", "]">>

\* what a column whose sample is null holds for a cell
nullSampled(cell) ==
  IF cell.k \in {"null", "absent"} THEN NilPtr
  ELSE IF cell.k = "str" THEN PtrString(cell.s)
  ELSE PtrString(genericText(cell))

\* C22: a column whose first-row value is null is a String column, and in
\* each row a null stays absent, a string is taken as it is, and any other
\* value (number, boolean, array) is stored as its generic text form.
C22_NullSampleColumn ==
  \A i \in Entries :
    /\ tabular(i) =>
         /\ oneFrame(i)
         /\ Len(fieldsOf(i)) = Len(columnsOf(i))
         /\ \A c \in 1..Len(columnsOf(i)) :
              cellAt(i, 1, c).k = "null" =>
                /\ fieldsOf(i)[c].Type = "[]*string"
                /\ Len(fieldsOf(i)[c].Values) = Len(rowsOf(i))
                /\ \A r \in 1..Len(rowsOf(i)) :
                     fieldsOf(i)[c].Values[r] = nullSampled(cellAt(i, r, c))
    /\ legacyTabular(i) =>
         /\ oneFrame(i)
         /\ \A c \in 1..Len(fieldsOf(i)) :
              jget(legacyRowsOf(i)[1], fieldsOf(i)[c].Name).k = "null" =>
                /\ fieldsOf(i)[c].Type = "[]*string"
                /\ Len(fieldsOf(i)[c].Values) = Len(legacyRowsOf(i))
                /\ \A r \in 1..Len(legacyRowsOf(i)) :
                     fieldsOf(i)[c].Values[r] =
                       nullSampled(jget(legacyRowsOf(i)[r], fieldsOf(i)[c].Name))

\* null in the first row, 42 in the second
C22_Witness ==
  \E i \in Entries :
    /\ tabular(i)
    /\ Len(rowsOf(i)) = MaxRows
    /\ rowsOf(i)[1] # <<>>
    /\ cellAt(i, 1, 1) = JNull
    /\ cellAt(i, 2, 1) = JNum(42)
    /\ fieldsOf(i)[1].Values[1] = NilPtr
    /\ fieldsOf(i)[1].Values[2] = PtrString(<<"4", "2">>)

C22_WitnessString ==
  \E i \in Entries :
    /\ tabular(i)
    /\ cellAt(i, 1, 1) = JNull
    /\ Len(rowsOf(i)) > 1
    /\ cellAt(i, 2, 1) = JStr(tsD1)
    /\ fieldsOf(i)[1].Values[2] = PtrString(tsD1)

C22_WitnessLegacy ==
  \E i \in Entries :
    /\ legacyTabular(i)
    /\ Len(legacyRowsOf(i)) = MaxRows
    /\ Len(fieldsOf(i)) > 0
    /\ jget(legacyRowsOf(i)[1], fieldsOf(i)[1].Name) = JNull
    /\ jget(legacyRowsOf(i)[2], fieldsOf(i)[1].Name) = JBool(TRUE)
    /\ fieldsOf(i)[1].Values[2] = PtrString(<<"t", "r", "u", "e">>)

\* a string that matches neither timestamp layout
plainString(cell) == cell.k = "str" /\ cell.s \notin {tsD1, tsRFC}

\* what a Boolean column and a plain String column hold for a cell
boolSampled(cell) == IF cell.k = "bool" THEN PtrBool(cell.b) ELSE NilPtr
stringSampled(cell) == IF cell.k = "str" THEN PtrString(cell.s) ELSE NilPtr

\* C23: in a column whose first-row value is a boolean every row holding a
\* non-boolean value is absent; in a column whose first-row value is a string
\* matching neither timestamp layout every row holding a string keeps that
\* exact string, also when it looks like a timestamp, and every row holding
\* another value is absent, not stringified.
C23_BoolAndStringColumns ==
  \A i \in Entries :
    /\ tabular(i) =>
         /\ oneFrame(i)
         /\ Len(fieldsOf(i)) = Len(columnsOf(i))
         /\ \A c \in 1..Len(columnsOf(i)) :
              /\ cellAt(i, 1, c).k = "bool" =>
                   /\ fieldsOf(i)[c].Type = "[]*bool"
                   /\ \A r \in 1..Len(rowsOf(i)) :
                        fieldsOf(i)[c].Values[r] = boolSampled(cellAt(i, r, c))
              /\ plainString(cellAt(i, 1, c)) =>
                   /\ fieldsOf(i)[c].Type = "[]*string"
                   /\ \A r \in 1..Len(rowsOf(i)) :
                        fieldsOf(i)[c].Values[r] = stringSampled(cellAt(i, r, c))
    /\ legacyTabular(i) =>
         /\ oneFrame(i)
         /\ \A c \in 1..Len(fieldsOf(i)) :
              /\ jget(legacyRowsOf(i)[1], fieldsOf(i)[c].Name).k = "bool" =>
                   /\ fieldsOf(i)[c].Type = "[]*bool"
                   /\ \A r \in 1..Len(legacyRowsOf(i)) :
                        fieldsOf(i)[c].Values[r] =
                          boolSampled(jget(legacyRowsOf(i)[r], fieldsOf(i)[c].Name))
              /\ plainString(jget(legacyRowsOf(i)[1], fieldsOf(i)[c].Name)) =>
                   /\ fieldsOf(i)[c].Type = "[]*string"
                   /\ \A r \in 1..Len(legacyRowsOf(i)) :
                        fieldsOf(i)[c].Values[r] =
                          stringSampled(jget(legacyRowsOf(i)[r], fieldsOf(i)[c].Name))

\* a plain string in the first row, a number in the second
C23_Witness ==
  \E i \in Entries :
    /\ tabular(i)
    /\ Len(rowsOf(i)) = MaxRows
    /\ cellAt(i, 1, 1) = JStr(notTime)
    /\ cellAt(i, 2, 1) = JNum(42)
    /\ fieldsOf(i)[1].Values[1] = PtrString(notTime)
    /\ fieldsOf(i)[1].Values[2] = NilPtr

\* a plain string in the first row, a timestamp string in the second
C23_WitnessTimestampKept ==
  \E i \in Entries :
    /\ tabular(i)
    /\ Len(rowsOf(i)) = MaxRows
    /\ cellAt(i, 1, 1) = JStr(notTime)
    /\ cellAt(i, 2, 1) = JStr(tsD1)
    /\ fieldsOf(i)[1].Values[2] = PtrString(tsD1)

C23_WitnessBool ==
  \E i \in Entries :
    /\ tabular(i)
    /\ Len(rowsOf(i)) = MaxRows
    /\ cellAt(i, 1, 1) = JBool(TRUE)
    /\ cellAt(i, 2, 1) = JStr(tsD1)
    /\ fieldsOf(i)[1].Values[1] = PtrBool(TRUE)
    /\ fieldsOf(i)[1].Values[2] = NilPtr

C23_WitnessLegacy ==
  \E i \in Entries :
    /\ legacyTabular(i)
    /\ Len(legacyRowsOf(i)) = MaxRows
    /\ Len(fieldsOf(i)) > 0
    /\ jget(legacyRowsOf(i)[1], fieldsOf(i)[1].Name) = JStr(notTime)
    /\ jget(legacyRowsOf(i)[2], fieldsOf(i)[1].Name) = JNum(42)
    /\ fieldsOf(i)[1].Values[2] = NilPtr

\* a successful /raw response whose first item holds at least one row
rowsReturned(i) == Raw /\ successful(i) /\ hasPayload(i) /\ Len(rowsOf(i)) > 0

C24_WitnessUnparsed ==
  \E i \in Entries :
    /\ rowsReturned(i)
    /\ Len(columnsOf(i)) > 0
    /\ Len(rowsOf(i)) = MaxRows
    /\ cellAt(i, 1, 1) = JStr(tsD1)
    /\ cellAt(i, 2, 1) = JStr(notTime)
    /\ Len(fieldsOf(i)[1].Values) = MaxRows

(***************************************************************************)
(* C25                                                                     *)
(***************************************************************************)
\* entries of one batch that carry the same query and meet the same answer
sameExchange(i, j) == call.batch[i].q = call.batch[j].q /\ envOf(i) = envOf(j)

\* C25: translation is deterministic. The response of a /query entry is the one
\* the code yields under every order in which the iteration over the first
\* row's keys may run, and two entries of a batch with the same query and the
\* same answer have the same response (frames with their names, field order,
\* types, values and notices, or the same error) wherever they stand in the
\* batch, in both implementations.
C25_TranslationDeterministic ==
  /\ Legacy => \A i \in Entries : \A rng \in RangeOrders :
       queryLegacy(settings, call.batch[i].q, envOf(i), rng).resp = respOf(i)
  /\ \A i, j \in Entries : sameExchange(i, j) => respOf(i) = respOf(j)

\* a row of two keys, at before id: the frame is the same under both orders
C25_Witness ==
  \E i \in Entries :
    /\ legacyTabular(i)
    /\ Len(legacyRowsOf(i)) = MaxRows
    /\ legacyKeys(legacyRowsOf(i)[1]) = {cAt, cId}
    /\ fieldsOf(i)[1].Name = cAt
    /\ fieldsOf(i)[2].Name = cId

\* the same query answered twice in one batch, after another one
C25_WitnessRepeated ==
  /\ Raw
  /\ \E i, j \in Entries : i < j /\ sameExchange(i, j) /\ oneFrame(i) /\ oneFrame(j)

(***************************************************************************)
(* C26                                                                     *)
(***************************************************************************)
\* the answer with the result array cut after its first item
firstItemOnly(env) ==
  [env EXCEPT !.body = JObj([n \in 1..Len(env.body.o) |->
      IF env.body.o[n][1] = kResult
        THEN <<kResult, JArr(<<env.body.o[n][2].a[1]>>)>>
        ELSE env.body.o[n]])]

\* the first item of the result holds no rows
noRowsFirst(i) ==
  IF Raw THEN unset(payloadJ(i)) \/ rowsOf(i) = <<>>
         ELSE unset(payloadJ(i)) \/ payloadJ(i).a = <<>>

itemCount(i) == Len(resultJ(i).a)

\* C26: a successful response is translated from result[0] alone. The response
\* of an entry is the one the same query gives when the result array is cut
\* after its first item, and a first item without rows gives one frame with no
\* field and one notice, whatever the following items hold.
C26_FirstItemOnly ==
  \A i \in Entries :
    (successful(i) /\ ~noItems(i)) =>
      /\ Raw => query(settings, call.batch[i].q, firstItemOnly(envOf(i))).resp = respOf(i)
      /\ Legacy => \A rng \in RangeOrders :
           queryLegacy(settings, call.batch[i].q, firstItemOnly(envOf(i)), rng).resp = respOf(i)
      /\ noRowsFirst(i) =>
           /\ oneFrame(i)
           /\ fieldsOf(i) = <<>>
           /\ Len(respOf(i).Frames[1].Notices) = 1

\* /raw: the first item has columns and no rows, the second holds a row
C26_Witness ==
  /\ Raw
  /\ \E i \in Entries :
       /\ successful(i)
       /\ ~noItems(i)
       /\ itemCount(i) = 2
       /\ hasPayload(i)
       /\ rowsOf(i) = <<>>
       /\ jget(resultJ(i).a[2], kResults).k = "obj"
       /\ jget(jget(resultJ(i).a[2], kResults), kRows).a # <<>>
       /\ fieldsOf(i) = <<>>
       /\ Len(respOf(i).Frames[1].Notices) = 1

\* /raw: the first item holds a row, the second is another item
C26_WitnessFollowed ==
  /\ Raw
  /\ \E i \in Entries :
       /\ tabular(i)
       /\ itemCount(i) = 2
       /\ resultJ(i).a[2] # resultJ(i).a[1]
       /\ Len(fieldsOf(i)) = Len(columnsOf(i))

\* /query: the first item has no rows, the second holds one
C26_WitnessLegacy ==
  /\ Legacy
  /\ \E i \in Entries :
       /\ successful(i)
       /\ ~noItems(i)
       /\ itemCount(i) = 2
       /\ payloadJ(i).a = <<>>
       /\ jget(resultJ(i).a[2], kResults).a # <<>>
       /\ fieldsOf(i) = <<>>

(***************************************************************************)
(* C27                                                                     *)
(***************************************************************************)
\* the values of a field, whatever its type
valuesIn(field) == Len(field.Values)

\* C27: every query result carries an error exactly when it carries no frame;
\* without an error it carries exactly one frame, whose name is the RefID of
\* the query and whose fields all hold the same number of values.
C27_ErrorOrOneFrame ==
  \A i \in Entries :
    /\ (respOf(i).Error # NoError) <=> (respOf(i).Frames = <<>>)
    /\ respOf(i).Error = NoError =>
         /\ Len(respOf(i).Frames) = 1
         /\ respOf(i).Frames[1].Name = refIDOf(i)
         /\ \A c, d \in 1..Len(fieldsOf(i)) :
              valuesIn(fieldsOf(i)[c]) = valuesIn(fieldsOf(i)[d])

\* /raw: in one batch, query B gets a frame of two full fields named B and
\* another query gets an error and no frame
C27_Witness ==
  /\ Raw
  /\ \E i, j \in Entries :
       /\ refIDOf(i) = "B"
       /\ respOf(i).Error = NoError
       /\ respOf(i).Frames[1].Name = "B"
       /\ Len(fieldsOf(i)) = 2
       /\ valuesIn(fieldsOf(i)[1]) > 0
       /\ respOf(j).Error # NoError
       /\ respOf(j).Frames = <<>>

\* /query: the same
C27_WitnessLegacy ==
  /\ Legacy
  /\ \E i, j \in Entries :
       /\ refIDOf(i) = "B"
       /\ respOf(i).Error = NoError
       /\ respOf(i).Frames[1].Name = "B"
       /\ Len(fieldsOf(i)) > 0
       /\ respOf(j).Error # NoError
       /\ respOf(j).Frames = <<>>

(***************************************************************************)
(* C28                                                                     *)
(***************************************************************************)
\* the class of a query error: the format of its message
errorClass(i) == respOf(i).Error[1]

transportClass == "error executing D1 API request: %w"
statusClass == "D1 API request failed with status %s. Response: %s"
decodeClass == IF Raw THEN "error unmarshalling D1 API raw response: %w. Body: %s"
               ELSE "error unmarshalling D1 API response: %w. Body: %s"
envelopeClass == "D1 API error: %s"

\* the body is an envelope whose success flag is not true
flaggedFailed(body) ==
  \/ body.k = "null"
  \/ body.k = "obj" /\ jget(body, kSuccess) \in {JBool(FALSE), JNull, Absent}

\* C28: a query that was sent fails in the first class, in the order
\* transport, HTTP status, JSON decoding, envelope success flag, whose
\* condition the exchange meets: a status other than 200 gives the HTTP-status
\* error whatever the body holds, a 200 body that does not decode gives the
\* decoding error, and the success flag is looked at only after both.
C28_FailureOrder ==
  \A i \in Entries :
    hasText(i) =>
      /\ envOf(i).k = "transport" => errorClass(i) = transportClass
      /\ answered(i) =>
           /\ envOf(i).status # 200 => errorClass(i) = statusClass
           /\ (envOf(i).status = 200 /\ notEnvelope(i)) => errorClass(i) = decodeClass
           /\ (envOf(i).status = 200 /\ ~notEnvelope(i) /\ flaggedFailed(envOf(i).body)) =>
                errorClass(i) = envelopeClass
           /\ (envOf(i).status = 200 /\ ~notEnvelope(i) /\ ~flaggedFailed(envOf(i).body)) =>
                errorClass(i) \notin {transportClass, statusClass, decodeClass, envelopeClass}

\* /raw: status 403 with a well-formed envelope of success = false and two
\* errors is reported by its status
C28_Witness ==
  /\ Raw
  /\ \E i \in Entries :
       /\ answered(i)
       /\ envOf(i).status = 403
       /\ envOf(i).body.k = "obj"
       /\ jget(envOf(i).body, kSuccess) = JBool(FALSE)
       /\ Len(errorsJ(i)) = 2
       /\ errorClass(i) = statusClass

\* /raw: status 200 with a body that is no JSON is reported as a decoding error
C28_WitnessUndecodable ==
  /\ Raw
  /\ \E i \in Entries :
       /\ answered(i)
       /\ envOf(i).status = 200
       /\ envOf(i).body.k = "garbage"
       /\ errorClass(i) = decodeClass

\* /query: status 403 with a well-formed envelope is reported by its status
C28_WitnessLegacy ==
  /\ Legacy
  /\ \E i \in Entries :
       /\ answered(i)
       /\ envOf(i).status = 403
       /\ envOf(i).body.k = "obj"
       /\ errorClass(i) = statusClass

(***************************************************************************)
(* C29                                                                     *)
(***************************************************************************)
\* C29: exactly status 200 is accepted. A query answered with any other
\* status, 201, 202 and 204 among them, fails with the HTTP-status error that
\* holds the status and the body, and has no frame; a query answered with 200
\* never fails with that error. A health probe answered with any other status
\* reports Error, and one answered with 200 reports Ok.
C29_Only200Accepted ==
  /\ \A i \in Entries :
       answered(i) =>
         /\ envOf(i).status # 200 =>
              /\ respOf(i).Error = <<statusClass, <<envOf(i).status, envOf(i).body>> >>
              /\ respOf(i).Frames = <<>>
         /\ envOf(i).status = 200 => errorClass(i) # statusClass
  /\ (Probed /\ complete(settings) /\ call.env.k # "transport") =>
       /\ call.env.status # 200 => healthOut.result.Status = "ERROR"
       /\ call.env.status = 200 => healthOut.result.Status = "OK"

\* /raw: 204 with an empty body is an HTTP-status error
C29_Witness ==
  /\ Raw
  /\ \E i \in Entries :
       /\ answered(i)
       /\ envOf(i) = Response(204, Garbage(""))
       /\ errorClass(i) = statusClass

\* /raw: 202 with a well-formed successful envelope holding a row
C29_WitnessAccepted ==
  /\ Raw
  /\ \E i \in Entries :
       /\ answered(i)
       /\ envOf(i).status = 202
       /\ envOf(i).body.k = "obj"
       /\ jget(envOf(i).body, kSuccess) = JBool(TRUE)
       /\ ~noItems(i)
       /\ respOf(i).Frames = <<>>

C29_WitnessLegacy ==
  /\ Legacy
  /\ \E i \in Entries :
       /\ answered(i)
       /\ envOf(i).status = 202
       /\ respOf(i).Frames = <<>>

\* the probe answered with 204 reports Error, in both implementations
C29_WitnessHealth ==
  /\ Health
  /\ complete(settings)
  /\ call.env.k = "response"
  /\ call.env.status = 204
  /\ healthOut.result.Status = "ERROR"

C29_WitnessHealthLegacy ==
  /\ HealthLegacy
  /\ complete(settings)
  /\ call.env.k = "response"
  /\ call.env.status = 202
  /\ healthOut.result.Status = "ERROR"

(***************************************************************************)
(* C30                                                                     *)
(***************************************************************************)
\* a JSON object with the member of one key replaced
withMember(obj, key, v) ==
  JObj([n \in 1..Len(obj.o) |-> IF obj.o[n][1] = key THEN <<key, v>> ELSE obj.o[n]])

\* a row cut after the cell of the last column
cutRow(row, width) ==
  IF row.k = "arr" /\ Len(row.a) > width THEN JArr(SubSeq(row.a, 1, width)) ELSE row

\* the answer of entry i with every row of the first item cut to the columns
cutToColumns(i) ==
  LET rowsJ == jget(payloadJ(i), kRows)
      cut   == JArr([r \in 1..Len(rowsJ.a) |-> cutRow(rowsJ.a[r], Len(columnsOf(i)))])
      item  == withMember(item1(i), kResults, withMember(payloadJ(i), kRows, cut))
  IN  [envOf(i) EXCEPT !.body =
         withMember(envOf(i).body, kResult,
                    JArr(<<item>> \o SubSeq(resultJ(i).a, 2, Len(resultJ(i).a))))]

C30_WitnessLonger ==
  \E i \in Entries :
    /\ tabular(i)
    /\ Len(columnsOf(i)) = 1
    /\ \A r \in 1..Len(rowsOf(i)) : Len(rowsOf(i)[r]) = 2
    /\ Len(fieldsOf(i)) = 1
    /\ Len(fieldsOf(i)[1].Values) = Len(rowsOf(i))

\* a later row shorter than the columns: absent in a Number column
C30_WitnessShortLater ==
  \E i \in Entries :
    /\ tabular(i)
    /\ Len(columnsOf(i)) = 2
    /\ Len(rowsOf(i)) = MaxRows
    /\ Len(rowsOf(i)[1]) = 2
    /\ Len(rowsOf(i)[2]) = 1
    /\ fieldsOf(i)[2].Type = "[]*float64"
    /\ fieldsOf(i)[2].Values[2] = NilPtr

====
